---- MODULE Spec2Model ----
(***************************************************************************)
(* all-your-base64: the conversion engine (Base64Engine), the output       *)
(* formatter (OutputFormatter), the job memory of the MCP server and the   *)
(* encode front ends.                                                      *)
(*                                                                         *)
(* Text and binary data are sequences of numbers: a JavaScript string is   *)
(* the sequence of its character codes, a Buffer the sequence of its bytes.*)
(* A call that may throw yields Return(v) or Throw(message).               *)
(***************************************************************************)
EXTENDS Integers, Sequences, FiniteSets, TLC

VARIABLES
    files,       \* the directory the engine reads
    options,     \* the ConversionOptions of the caller's request
    result,      \* the ConversionResult the caller got back
    formatCall,  \* the arguments of a call of OutputFormatter.format
    formatted,   \* what that call returned or threw
    calls,       \* the convert calls in flight on one engine, by caller
    jobs,        \* JobMemory.jobs: the job records, in the order of the Map
    lastCall,    \* the last call of a JobMemory method and what it returned
    recent,      \* the job ids in the order they were last stored or fetched
    frontEnd     \* the command or tool call a front end is handling

engineVars == <<files, options, result>>
formatVars == <<formatCall, formatted>>
serverVars == <<jobs, lastCall, recent, frontEnd>>
vars == <<files, options, result, formatCall, formatted, calls,
          jobs, lastCall, recent, frontEnd>>

----------------------------------------------------------------------------
(* Bounds of the model *)

\* longest input (string, stdin buffer or file content) that is enumerated
MaxLen == 3
\* largest wrapAt that is enumerated (0 stands for "no wrapAt")
MaxWrap == 2

----------------------------------------------------------------------------
(* Character codes and strings *)

\* "=", the padding character
PAD == <<61>>
\* "\n"
NL == <<10>>

\* a cleaner that removes blanks only (/ /g for /\s/g)
IsWhitespace_SpaceOnly(c) == c = 32

\* the code units /\s/ matches
IsWhitespace(c) ==
    \/ c \in {9, 10, 11, 12, 13, 32, 160, 5760, 8232, 8233, 8239, 8287, 12288, 65279}
    \/ c \in 8192..8202

\* the code units "." does not match in a regular expression
IsLineTerminator(c) == c \in {10, 13, 8232, 8233}

\* [A-Za-z0-9+/]
IsBase64Char(c) ==
    \/ c \in 65..90
    \/ c \in 97..122
    \/ c \in 48..57
    \/ c \in {43, 47}

Return(v) == [threw |-> FALSE, value |-> v]
Throw(m) == [threw |-> TRUE, message |-> m]

\* Buffer.from(str, 'utf8') for code units below 0x800
RECURSIVE Utf8Encode(_)
Utf8Encode(str) ==
    IF str = <<>> THEN <<>>
    ELSE LET c == Head(str) IN
         (IF c < 128 THEN <<c>> ELSE <<192 + (c \div 64), 128 + (c % 64)>>)
             \o Utf8Encode(Tail(str))

\* buffer.toString(): one- and two-byte sequences; any other byte becomes U+FFFD
RECURSIVE Utf8Decode(_)
Utf8Decode(buffer) ==
    IF buffer = <<>> THEN <<>>
    ELSE LET b == Head(buffer) IN
         IF b < 128 THEN <<b>> \o Utf8Decode(Tail(buffer))
         ELSE IF /\ b \in 194..223
                 /\ Len(buffer) >= 2
                 /\ buffer[2] \in 128..191
              THEN <<(b - 192) * 64 + (buffer[2] - 128)>>
                       \o Utf8Decode(SubSeq(buffer, 3, Len(buffer)))
              ELSE <<65533>> \o Utf8Decode(Tail(buffer))

----------------------------------------------------------------------------
(* Node's base64 codec *)

\* the character of a six-bit value
B64Char(i) ==
    IF i < 26 THEN 65 + i
    ELSE IF i < 52 THEN 97 + (i - 26)
    ELSE IF i < 62 THEN 48 + (i - 52)
    ELSE IF i = 62 THEN 43 ELSE 47

\* an encoder that leaves out the "=" padding
RECURSIVE toBase64_NoPadding(_)
toBase64_NoPadding(buffer) ==
    IF buffer = <<>> THEN <<>>
    ELSE IF Len(buffer) = 1 THEN
        <<B64Char(buffer[1] \div 4), B64Char((buffer[1] % 4) * 16)>>
    ELSE IF Len(buffer) = 2 THEN
        <<B64Char(buffer[1] \div 4),
          B64Char((buffer[1] % 4) * 16 + (buffer[2] \div 16)),
          B64Char((buffer[2] % 16) * 4)>>
    ELSE
        <<B64Char(buffer[1] \div 4),
          B64Char((buffer[1] % 4) * 16 + (buffer[2] \div 16)),
          B64Char((buffer[2] % 16) * 4 + (buffer[3] \div 64)),
          B64Char(buffer[3] % 64)>>
            \o toBase64_NoPadding(SubSeq(buffer, 4, Len(buffer)))

\* buffer.toString('base64')
RECURSIVE toBase64(_)
toBase64(buffer) ==
    IF buffer = <<>> THEN <<>>
    ELSE IF Len(buffer) = 1 THEN
        <<B64Char(buffer[1] \div 4), B64Char((buffer[1] % 4) * 16)>> \o PAD \o PAD
    ELSE IF Len(buffer) = 2 THEN
        <<B64Char(buffer[1] \div 4),
          B64Char((buffer[1] % 4) * 16 + (buffer[2] \div 16)),
          B64Char((buffer[2] % 16) * 4)>> \o PAD
    ELSE
        <<B64Char(buffer[1] \div 4),
          B64Char((buffer[1] % 4) * 16 + (buffer[2] \div 16)),
          B64Char((buffer[2] % 16) * 4 + (buffer[3] \div 64)),
          B64Char(buffer[3] % 64)>> \o toBase64(SubSeq(buffer, 4, Len(buffer)))

\* the six-bit value of a character; 64 for a character that has none.
\* Node's decoder also takes the URL-safe "-" and "_".
unbase64(c) ==
    IF c \in 65..90 THEN c - 65
    ELSE IF c \in 97..122 THEN c - 97 + 26
    ELSE IF c \in 48..57 THEN c - 48 + 52
    ELSE IF c \in {43, 45} THEN 62
    ELSE IF c \in {47, 95} THEN 63
    ELSE 64

\* the six-bit values the decoder reads: it skips what is no base64 character
\* and stops at the first "="
RECURSIVE Sextets(_)
Sextets(str) ==
    IF str = <<>> THEN <<>>
    ELSE IF <<Head(str)>> = PAD THEN <<>>
    ELSE IF unbase64(Head(str)) < 64
         THEN <<unbase64(Head(str))>> \o Sextets(Tail(str))
         ELSE Sextets(Tail(str))

\* the bytes of a run of six-bit values; a last group of two gives one byte,
\* of three gives two bytes, and a single left-over value gives none
RECURSIVE SextetsToBytes(_)
SextetsToBytes(s) ==
    IF Len(s) < 2 THEN <<>>
    ELSE IF Len(s) = 2 THEN <<s[1] * 4 + (s[2] \div 16)>>
    ELSE IF Len(s) = 3 THEN
        <<s[1] * 4 + (s[2] \div 16), (s[2] % 16) * 16 + (s[3] \div 4)>>
    ELSE
        <<s[1] * 4 + (s[2] \div 16),
          (s[2] % 16) * 16 + (s[3] \div 4),
          (s[3] % 4) * 64 + s[4]>> \o SextetsToBytes(SubSeq(s, 5, Len(s)))

\* Buffer.from(str, 'base64'): never throws
fromBase64(str) == SextetsToBytes(Sextets(str))

----------------------------------------------------------------------------
(* The file system and the MIME detector, as the engine sees them *)

Range(s) == {s[i] : i \in DOMAIN s}

\* fs.stat(path)
stat(fsys, path) ==
    IF path \in DOMAIN fsys
    THEN Return([size |-> Len(fsys[path].data)])
    ELSE Throw("ENOENT: no such file or directory, stat")

\* fs.readFile(path)
readFile(fsys, path) ==
    IF path \notin DOMAIN fsys THEN Throw("ENOENT: no such file or directory, open")
    ELSE IF ~fsys[path].readable THEN Throw("EACCES: permission denied, open")
    ELSE Return(fsys[path].data)

\* the SHA-256 digest in hex, as an injective function of the bytes
sha256(bytes) == [sha256 |-> bytes]

\* filePath.split('/').pop()
RECURSIVE LastSegment(_)
LastSegment(path) ==
    IF 47 \in Range(path) THEN LastSegment(Tail(path)) ELSE path

\* MimeTypeDetector.detectFromFile: total; no modelled content carries a magic
\* number and no modelled path an extension, which leaves the fallback
detectFromFile(fsys, filePath) == "application/octet-stream"

\* MimeTypeDetector.detectFromBuffer: total, same fallback
detectFromBuffer(buffer) == "application/octet-stream"

----------------------------------------------------------------------------
(* Base64Engine *)

\* the concatenation of the strings of a sequence, by halves
RECURSIVE Concat(_)
Concat(parts) ==
    IF parts = <<>> THEN <<>>
    ELSE IF Len(parts) = 1 THEN parts[1]
    ELSE LET half == Len(parts) \div 2
         IN  Concat(SubSeq(parts, 1, half))
                 \o Concat(SubSeq(parts, half + 1, Len(parts)))

\* the pieces of str between the positions seps, in order
PiecesBetween(str, seps) ==
    LET starts == SelectSeq([i \in 1..(Len(str) + 1) |-> i - 1],
                            LAMBDA p : p = 0 \/ p \in seps)
    IN  [k \in DOMAIN starts |->
            SubSeq(str, starts[k] + 1,
                   IF k < Len(starts) THEN starts[k + 1] - 1 ELSE Len(str))]

\* str.match(new RegExp(`.{1,${w}}`, 'g')): the successive greedy matches,
\* <<>> where match gives null. "." stops at a line terminator, so each run
\* between line terminators is cut into pieces of w characters, the last
\* piece of a run being what is left of it; an empty run matches nothing
MatchChunks(str, w) ==
    LET runs == PiecesBetween(str, {i \in DOMAIN str : IsLineTerminator(str[i])})
        chunks(run) ==
            [k \in 1..((Len(run) + w - 1) \div w) |->
                SubSeq(run, (k - 1) * w + 1,
                       IF k * w < Len(run) THEN k * w ELSE Len(run))]
    IN  Concat([r \in DOMAIN runs |-> chunks(runs[r])])

\* parts.join(sep)
Join(parts, sep) ==
    Concat([i \in DOMAIN parts |-> IF i = 1 THEN parts[i] ELSE sep \o parts[i]])

\* Base64Engine.encodeBuffer; wrapAt = 0 also stands for an absent wrapAt
encodeBuffer(buffer, wrapAt) ==
    LET base64 == toBase64(buffer)
        matches == MatchChunks(base64, wrapAt)
    IN  IF wrapAt # 0 /\ wrapAt > 0
        THEN IF matches = <<>> \/ Join(matches, NL) = <<>>
             THEN base64
             ELSE Join(matches, NL)
        ELSE base64

\* base64String.replace(/\s/g, '')
RECURSIVE StripWhitespace(_)
StripWhitespace(str) ==
    IF str = <<>> THEN <<>>
    ELSE IF IsWhitespace(Head(str)) THEN StripWhitespace(Tail(str))
    ELSE <<Head(str)>> \o StripWhitespace(Tail(str))

\* the number of leading base64 characters
RECURSIVE Base64Run(_)
Base64Run(str) ==
    IF str = <<>> \/ ~IsBase64Char(Head(str)) THEN 0 ELSE 1 + Base64Run(Tail(str))

\* str.match(/=*$/)[0].length
RECURSIVE TrailingPadding(_)
TrailingPadding(str) ==
    IF str = <<>> \/ <<str[Len(str)]>> # PAD THEN 0
    ELSE 1 + TrailingPadding(SubSeq(str, 1, Len(str) - 1))

\* the pattern with "+" for "*": /^[A-Za-z0-9+/]+={0,2}$/
MatchesBase64Regex_Plus(str) ==
    LET rest == SubSeq(str, Base64Run(str) + 1, Len(str)) IN
    /\ Base64Run(str) >= 1
    /\ Len(rest) <= 2
    /\ \A i \in DOMAIN rest : <<rest[i]>> = PAD

\* /^[A-Za-z0-9+/]*={0,2}$/.test(str)
MatchesBase64Regex(str) ==
    LET rest == SubSeq(str, Base64Run(str) + 1, Len(str)) IN
    /\ Len(rest) <= 2
    /\ \A i \in DOMAIN rest : <<rest[i]>> = PAD

\* str.indexOf('='), counted from 0; -1 when there is none
IndexOfPad(str) ==
    IF \E i \in DOMAIN str : <<str[i]>> = PAD
    THEN (CHOOSE i \in DOMAIN str :
              /\ <<str[i]>> = PAD
              /\ \A j \in 1..(i - 1) : <<str[j]>> # PAD) - 1
    ELSE -1

\* decodeBase64 validating the input as given, without removing whitespace
decodeBase64_NoStrip(base64String) ==
    LET cleaned == base64String
        paddingIndex == IndexOfPad(cleaned)
        paddingLength == TrailingPadding(cleaned)
    IN  IF ~MatchesBase64Regex(cleaned)
        THEN Throw("Invalid base64 format: contains invalid characters")
        ELSE IF paddingIndex >= 0 /\ paddingIndex < Len(cleaned) - 2
        THEN Throw("Invalid base64 format: padding in wrong position")
        ELSE IF paddingLength > 2
        THEN Throw("Invalid base64 format: too many padding characters")
        ELSE Return(fromBase64(cleaned))

\* decodeBase64 without the pattern test: only the two padding checks
decodeBase64_NoPatternTest(base64String) ==
    LET cleaned == StripWhitespace(base64String)
        paddingIndex == IndexOfPad(cleaned)
        paddingLength == TrailingPadding(cleaned)
    IN  IF paddingIndex >= 0 /\ paddingIndex < Len(cleaned) - 2
        THEN Throw("Invalid base64 format: padding in wrong position")
        ELSE IF paddingLength > 2
        THEN Throw("Invalid base64 format: too many padding characters")
        ELSE Return(fromBase64(cleaned))

\* decodeBase64 testing the characters only (/^[A-Za-z0-9+/=]*$/), with no
\* check of where the padding is
decodeBase64_CharsOnly(base64String) ==
    LET cleaned == StripWhitespace(base64String)
    IN  IF \E i \in DOMAIN cleaned :
               ~IsBase64Char(cleaned[i]) /\ <<cleaned[i]>> # PAD
        THEN Throw("Invalid base64 format: contains invalid characters")
        ELSE Return(fromBase64(cleaned))

\* decodeBase64 that also insists on a length that is a multiple of four
decodeBase64_Strict(base64String) ==
    LET cleaned == StripWhitespace(base64String)
    IN  IF ~MatchesBase64Regex(cleaned)
        THEN Throw("Invalid base64 format: contains invalid characters")
        ELSE IF Len(cleaned) % 4 # 0
        THEN Throw("Invalid base64 format: bad length")
        ELSE Return(fromBase64(cleaned))

\* Base64Engine.decodeBase64
decodeBase64(base64String) ==
    LET cleaned == StripWhitespace(base64String)
        paddingIndex == IndexOfPad(cleaned)
        paddingLength == TrailingPadding(cleaned)
    IN  IF ~MatchesBase64Regex(cleaned)
        THEN Throw("Invalid base64 format: contains invalid characters")
        ELSE IF paddingIndex >= 0 /\ paddingIndex < Len(cleaned) - 2
        THEN Throw("Invalid base64 format: padding in wrong position")
        ELSE IF paddingLength > 2
        THEN Throw("Invalid base64 format: too many padding characters")
        ELSE Return(fromBase64(cleaned))

\* Base64Engine.streamEncodeFile: reads the whole file, encodes without wrapAt
streamEncodeFile(fsys, filePath, chunkSize) ==
    LET buffer == readFile(fsys, filePath) IN
    IF buffer.threw THEN buffer ELSE Return(encodeBuffer(buffer.value, 0))

\* Base64Engine.streamDecodeFile
streamDecodeFile(fsys, filePath) ==
    LET base64Content == readFile(fsys, filePath) IN
    IF base64Content.threw THEN base64Content
    ELSE decodeBase64(Utf8Decode(base64Content.value))

\* Base64Engine.calculateFileHash
calculateFileHash(fsys, filePath) ==
    LET stream == readFile(fsys, filePath) IN
    IF stream.threw THEN stream ELSE Return(sha256(stream.value))

\* Base64Engine.calculateBufferHash
calculateBufferHash(buffer) == sha256(buffer)

\* Base64Engine.convertStreamingFile
convertStreamingFile(fsys, opts) ==
    LET filePath == opts.input
        stats == stat(fsys, filePath)
        filename == LastSegment(filePath)
        mimeType == detectFromFile(fsys, filePath)
        content == IF opts.mode = "encode"
                   THEN streamEncodeFile(fsys, filePath, opts.chunkSize)
                   ELSE streamDecodeFile(fsys, filePath)
        hash == calculateFileHash(fsys, filePath)
    IN  IF stats.threw THEN stats
        ELSE IF content.threw THEN content
        ELSE IF opts.mode = "encode"
        THEN IF hash.threw THEN hash
             ELSE Return([content |-> content.value,
                          metadata |-> [filename |-> filename,
                                        size |-> stats.value.size,
                                        mimeType |-> mimeType,
                                        hash |-> hash.value],
                          processingTime |-> 0,
                          success |-> TRUE])
        ELSE Return([content |-> content.value,
                     metadata |-> [filename |-> filename,
                                   size |-> stats.value.size,
                                   mimeType |-> mimeType],
                     processingTime |-> 0,
                     success |-> TRUE])

\* Base64Engine.convertInMemory
convertInMemory(fsys, opts) ==
    LET read == IF opts.inputType = "file" THEN readFile(fsys, opts.input)
                ELSE IF opts.inputType = "string" THEN Return(Utf8Encode(opts.input))
                ELSE Return(opts.input)
        stats == IF opts.inputType = "file" THEN stat(fsys, opts.input)
                 ELSE Return([size |-> 0])
        buffer == read.value
        metadata ==
            IF opts.inputType = "file"
            THEN [filename |-> LastSegment(opts.input),
                  size |-> Len(buffer),
                  mimeType |-> detectFromFile(fsys, opts.input),
                  hash |-> calculateBufferHash(buffer)]
            ELSE IF opts.inputType = "string"
            THEN [size |-> Len(buffer),
                  mimeType |-> "text/plain",
                  hash |-> calculateBufferHash(buffer)]
            ELSE [size |-> Len(buffer),
                  mimeType |-> detectFromBuffer(buffer),
                  hash |-> calculateBufferHash(buffer)]
        content ==
            IF opts.mode = "encode"
            THEN IF opts.streaming /\ opts.inputType = "file"
                 THEN streamEncodeFile(fsys, opts.input, opts.chunkSize)
                 ELSE Return(encodeBuffer(buffer, opts.wrapAt))
            ELSE decodeBase64(Utf8Decode(buffer))
    IN  IF read.threw THEN read
        ELSE IF stats.threw THEN stats
        ELSE IF content.threw
        THEN Return([content |-> <<>>,
                     metadata |-> [size |-> 0],
                     processingTime |-> 0,
                     success |-> FALSE,
                     error |-> content.message])
        ELSE Return([content |-> content.value,
                     metadata |-> metadata,
                     processingTime |-> 0,
                     success |-> TRUE])

\* convert without its try/catch: what a callee throws reaches the caller
convert_NoCatch(fsys, opts, elapsed) ==
    LET res == IF opts.streaming /\ opts.inputType = "file"
               THEN convertStreamingFile(fsys, opts)
               ELSE convertInMemory(fsys, opts)
    IN  IF res.threw THEN res
        ELSE [res.value EXCEPT !.processingTime = elapsed]

\* Base64Engine.convert; elapsed is Date.now() - startTime
convert(fsys, opts, elapsed) ==
    LET res == IF opts.streaming /\ opts.inputType = "file"
               THEN convertStreamingFile(fsys, opts)
               ELSE convertInMemory(fsys, opts)
    IN  IF res.threw
        THEN [content |-> <<>>,
              metadata |-> [size |-> 0],
              processingTime |-> elapsed,
              success |-> FALSE,
              error |-> res.message]
        ELSE [res.value EXCEPT !.processingTime = elapsed]

----------------------------------------------------------------------------
(* The inputs that are enumerated *)

BoundedSeq(S, n) == UNION {[1..k -> S] : k \in 0..n}

\* the RFC 4648 vectors of the engine's tests
RFC_4648_TEST_VECTORS ==
    {
      \* "" -> ""
      [input |-> <<>>, expected |-> <<>>],
      \* "f" -> "Zg=="
      [input |-> <<102>>, expected |-> <<90, 103, 61, 61>>],
      \* "fo" -> "Zm8="
      [input |-> <<102, 111>>, expected |-> <<90, 109, 56, 61>>],
      \* "foo" -> "Zm9v"
      [input |-> <<102, 111, 111>>, expected |-> <<90, 109, 57, 118>>],
      \* "foob" -> "Zm9vYg=="
      [input |-> <<102, 111, 111, 98>>, expected |-> <<90, 109, 57, 118, 89, 103, 61, 61>>],
      \* "fooba" -> "Zm9vYmE="
      [input |-> <<102, 111, 111, 98, 97>>, expected |-> <<90, 109, 57, 118, 89, 109, 69, 61>>],
      \* "foobar" -> "Zm9vYmFy"
      [input |-> <<102, 111, 111, 98, 97, 114>>, expected |-> <<90, 109, 57, 118, 89, 109, 70, 121>>]
    }

\* the inputs the tests expect decode to reject
INVALID_BASE64_CASES ==
    {
      \* "Invalid@Base64!"
      <<73, 110, 118, 97, 108, 105, 100, 64, 66, 97, 115, 101, 54, 52, 33>>,
      \* "SGVs*G8"
      <<83, 71, 86, 115, 42, 71, 56>>,
      \* "SGVsbG8==="
      <<83, 71, 86, 115, 98, 71, 56, 61, 61, 61>>
    }

\* the non-canonical inputs the tests expect decode to accept
LENIENT_BASE64_CASES ==
    {
      \* "SGVsbG8"
      <<83, 71, 86, 115, 98, 71, 56>>,
      \* "SGVsbG8="
      <<83, 71, 86, 115, 98, 71, 56, 61>>,
      \* "SGVsbG8= "
      <<83, 71, 86, 115, 98, 71, 56, 61, 32>>
    }

\* "Hello", the text behind the lenient cases
HELLO == <<72, 101, 108, 108, 111>>

\* "A", "=", " ", "*" and U+00FF
SampleChars == {65, 61, 32, 42, 255}

\* binary bytes, "A", "=", "\n"
SampleBytes == {0, 128, 65, 61, 10}

\* "A", "=", " " and a byte that is not valid UTF-8
FileBytes == {65, 61, 32, 255}

\* base64 text of "A" and "g" followed by zero to three "="
PaddingForms ==
    {a \o p : a \in BoundedSeq({65, 103}, MaxLen),
              p \in {<<>>, PAD, PAD \o PAD, PAD \o PAD \o PAD}}

TestStrings ==
    {v.input : v \in RFC_4648_TEST_VECTORS}
        \cup {v.expected : v \in RFC_4648_TEST_VECTORS}
        \cup INVALID_BASE64_CASES \cup LENIENT_BASE64_CASES \cup {HELLO}

\* options.input of a 'string' request
Strings == BoundedSeq(SampleChars, MaxLen) \cup PaddingForms \cup TestStrings

\* options.input of a 'stdin' request
Buffers == BoundedSeq(SampleBytes, MaxLen) \cup {Utf8Encode(s) : s \in TestStrings}

\* what a file may hold
FileContents == BoundedSeq(FileBytes, MaxLen) \cup PaddingForms \cup TestStrings

\* "/tmp/"
TmpDir == <<47, 116, 109, 112, 47>>

\* the file that holds data is /tmp/f<data>: one file for each content
FilePath(data) == TmpDir \o <<102>> \o data

\* /tmp/l exists but cannot be opened; /tmp/m does not exist
LockedPath == TmpDir \o <<108>>
MissingPath == TmpDir \o <<109>>

InitialFiles ==
    [p \in {FilePath(d) : d \in FileContents} \cup {LockedPath} |->
        IF p = LockedPath
        THEN [readable |-> FALSE, data |-> <<65>>]
        ELSE [readable |-> TRUE, data |-> SubSeq(p, Len(TmpDir) + 2, Len(p))]]

\* the chunk sizes the tests and the front ends pass
ChunkSizes == {1024, 65536}

\* the processing times (Date.now() - startTime) that are enumerated
ElapsedTimes == {0, 1}

----------------------------------------------------------------------------
(* The state machine: a caller of one engine over a fixed directory *)

NoOptions == [inputType |-> "none"]
NoResult == [none |-> TRUE]
\* no call of format is under way
NoFormatCall == [none |-> TRUE]
NoFormatted == [none |-> TRUE]
\* no convert call is in flight
NoCalls == <<>>
\* no JobMemory method has been called
NoCall == [method |-> "none"]
\* no command and no tool call is being handled
Idle == [kind |-> "idle"]

Init ==
    /\ files = InitialFiles
    /\ options = NoOptions
    /\ result = NoResult
    /\ formatCall = NoFormatCall
    /\ formatted = NoFormatted
    /\ calls = NoCalls
    /\ jobs = <<>>
    /\ lastCall = NoCall
    /\ recent = <<>>
    /\ frontEnd = Idle

\* the front end, idle, builds the request it will pass to the engine
Request(opts) ==
    /\ options' = opts
    /\ UNCHANGED <<files, result, formatVars, calls, serverVars>>

RequestFile ==
    /\ options = NoOptions
    /\ \E path \in DOMAIN files \cup {MissingPath}, mode \in {"encode", "decode"},
          streaming \in BOOLEAN, chunkSize \in ChunkSizes, wrapAt \in 0..MaxWrap :
           Request([inputType |-> "file", input |-> path, mode |-> mode,
                    streaming |-> streaming, chunkSize |-> chunkSize,
                    wrapAt |-> wrapAt])

RequestString ==
    /\ options = NoOptions
    /\ \E input \in Strings, mode \in {"encode", "decode"},
          streaming \in BOOLEAN, wrapAt \in 0..MaxWrap :
           Request([inputType |-> "string", input |-> input, mode |-> mode,
                    streaming |-> streaming, chunkSize |-> 65536,
                    wrapAt |-> wrapAt])

RequestStdin ==
    /\ options = NoOptions
    /\ \E input \in Buffers, mode \in {"encode", "decode"},
          streaming \in BOOLEAN, wrapAt \in 0..MaxWrap :
           Request([inputType |-> "stdin", input |-> input, mode |-> mode,
                    streaming |-> streaming, chunkSize |-> 65536,
                    wrapAt |-> wrapAt])

\* result = await engine.convert(options)
Convert ==
    /\ options # NoOptions
    /\ result = NoResult
    /\ \E elapsed \in ElapsedTimes : result' = convert(files, options, elapsed)
    /\ UNCHANGED <<files, options, formatVars, calls, serverVars>>

\* the caller has used the result and is ready for its next request
Finish ==
    /\ result # NoResult
    /\ options' = NoOptions
    /\ result' = NoResult
    /\ UNCHANGED <<files, formatVars, calls, serverVars>>

Next == RequestFile \/ RequestString \/ RequestStdin \/ Convert \/ Finish

Spec == Init /\ [][Next]_vars

----------------------------------------------------------------------------
(* What the properties speak about *)

\* a call has returned and the caller holds its result
Called == result # NoResult

\* the request's input can be read: it is no file, or a file that opens
Readable ==
    options.inputType = "file" =>
        (options.input \in DOMAIN files /\ files[options.input].readable)

\* the raw bytes of the request's input
InputBytes ==
    IF options.inputType = "file" THEN files[options.input].data
    ELSE IF options.inputType = "string" THEN Utf8Encode(options.input)
    ELSE options.input

\* the text a decode request carries
InputText ==
    IF options.inputType = "string" THEN options.input ELSE Utf8Decode(InputBytes)

Decoding == Called /\ options.mode = "decode" /\ Readable
Encoding == Called /\ options.mode = "encode" /\ Readable

\* text with its whitespace characters removed
Cleaned(text) == SelectSeq(text, LAMBDA c : ~IsWhitespace(c))

IsPad(c) == <<c>> = PAD

\* some character is neither of the base64 alphabet nor "="
HasForeignChar(text) ==
    \E i \in DOMAIN text : ~IsBase64Char(text[i]) /\ ~IsPad(text[i])

\* a string request that decodes text
DecodeRequest(text, streaming) ==
    [inputType |-> "string", input |-> text, mode |-> "decode",
     streaming |-> streaming, chunkSize |-> 65536, wrapAt |-> 0]

\* the result reports a failure in the documented shape
FailedResult ==
    /\ ~result.success
    /\ "error" \in DOMAIN result
    /\ result.error # ""
    /\ result.content = <<>>
    /\ result.metadata = [size |-> 0]

----------------------------------------------------------------------------
(* C1 *)

\* C1: convert never throws: every request yields a result record. A request
\* for a missing or unreadable file and a decode of text with a character
\* outside the alphabet fail, and every failed result has success = FALSE, an
\* error message, content '' and metadata {size: 0}.
C1_NeverThrows ==
    Called =>
        /\ "threw" \notin DOMAIN result
        /\ result.success \in BOOLEAN
        /\ ~Readable => ~result.success
        /\ (Decoding /\ HasForeignChar(Cleaned(InputText))) => ~result.success
        /\ ~result.success => FailedResult

\* a request for the missing file has returned a failed result
C1_Witness ==
    /\ Called
    /\ options.inputType = "file"
    /\ options.input = MissingPath
    /\ FailedResult

----------------------------------------------------------------------------
(* C2 *)

\* C2: when an encode succeeds, decoding its content succeeds and gives back
\* exactly the input bytes, with or without wrapAt; the empty input encodes
\* to the empty string.
C2_RoundTrip ==
    (Encoding /\ result.success) =>
        /\ InputBytes = <<>> => result.content = <<>>
        /\ \A streaming \in BOOLEAN :
              LET back == convert(files, DecodeRequest(result.content, streaming), 0)
              IN  back.success /\ back.content = InputBytes

\* an encode with wrapAt has returned content of more than one line
C2_Witness ==
    /\ Encoding
    /\ result.success
    /\ options.wrapAt > 0
    /\ Len(InputBytes) >= 2
    /\ \E i \in DOMAIN result.content : <<result.content[i]>> = NL

----------------------------------------------------------------------------
(* C3 *)

\* C3: a decode whose input, whitespace removed, holds a character outside
\* [A-Za-z0-9+/] and "=" returns success = FALSE with an error message and no
\* decoded bytes.
C3_RejectsForeignChars ==
    (Decoding /\ HasForeignChar(Cleaned(InputText))) =>
        /\ ~result.success
        /\ "error" \in DOMAIN result
        /\ result.content = <<>>

\* the decode of "SGVs*G8" has been rejected
C3_Witness ==
    /\ Decoding
    /\ options.inputType = "string"
    /\ options.input = <<83, 71, 86, 115, 42, 71, 56>>
    /\ ~result.success

----------------------------------------------------------------------------
(* C4 *)

\* a "=" before the final two positions, or more than two "=" at the end
BadPadding(text) ==
    \/ \E i \in 1..(Len(text) - 2) : IsPad(text[i])
    \/ /\ Len(text) >= 3
       /\ \A i \in (Len(text) - 2)..Len(text) : IsPad(text[i])

\* C4: a decode whose cleaned input has a "=" anywhere but in its final two
\* positions, or ends in more than two "=", returns success = FALSE.
C4_RejectsBadPadding ==
    (Decoding /\ BadPadding(Cleaned(InputText))) => ~result.success

\* the decode of "SGVsbG8===" has been rejected
C4_Witness ==
    /\ Decoding
    /\ options.inputType = "string"
    /\ options.input = <<83, 71, 86, 115, 98, 71, 56, 61, 61, 61>>
    /\ ~result.success

----------------------------------------------------------------------------
(* C5 *)

\* every "=" is in one of the final two positions
PadsInFinalTwo(text) ==
    \A i \in DOMAIN text : IsPad(text[i]) => i > Len(text) - 2

\* nothing but "=" follows a "="
PadsAtEnd(text) ==
    \A i, j \in DOMAIN text : (i < j /\ IsPad(text[i])) => IsPad(text[j])

----------------------------------------------------------------------------
(* C6 *)

\* text that encode produces for some bytes
IsCanonical(text) == text = toBase64(fromBase64(text))

\* text without the whitespace at its end
RECURSIVE TrimEnd(_)
TrimEnd(text) ==
    IF text = <<>> \/ ~IsWhitespace(text[Len(text)]) THEN text
    ELSE TrimEnd(SubSeq(text, 1, Len(text) - 1))

\* C6: when the decode input is a canonical text with some or all of its
\* trailing "=" removed and/or whitespace appended, the decode succeeds and
\* gives the bytes that the canonical text decodes to.
C6_LenientDecode ==
    Decoding =>
        \A p \in {<<>>, PAD, PAD \o PAD} :
            LET canonical == TrimEnd(InputText) \o p
                strict == convert(files, DecodeRequest(canonical, FALSE), 0)
            IN  IsCanonical(canonical) =>
                    /\ strict.success
                    /\ result.success
                    /\ result.content = strict.content

\* "SGVsbG8", which lacks its "=", has decoded to "Hello"
C6_Witness ==
    /\ Decoding
    /\ options.inputType = "string"
    /\ options.input = <<83, 71, 86, 115, 98, 71, 56>>
    /\ result.success
    /\ result.content = HELLO

----------------------------------------------------------------------------
(* C7 *)

\* the request's input as given: characters of a string, bytes otherwise
RawInput == IF options.inputType = "string" THEN options.input ELSE InputBytes

\* convert on the same request with another input (for a file: with the file
\* holding other data)
ConvertInput(raw) ==
    IF options.inputType = "file"
    THEN convert([p \in {options.input} |-> [readable |-> TRUE, data |-> raw]],
                 options, 0)
    ELSE convert(files, [options EXCEPT !.input = raw], 0)

\* the success flag and, on success, the bytes
Outcome(r) == IF r.success THEN <<TRUE, r.content>> ELSE <<FALSE, <<>> >>

\* position i of the raw input is between two characters of the text
CharBoundary(raw, i) ==
    \/ options.inputType = "string"
    \/ Utf8Decode(raw)
           = Utf8Decode(SubSeq(raw, 1, i)) \o Utf8Decode(SubSeq(raw, i + 1, Len(raw)))

\* tab, newline, carriage return, blank
InsertedWhitespace == {9, 10, 13, 32}

\* C7: a decode has the same outcome (success flag and, on success, bytes)
\* when one whitespace character is inserted at any position of its input
\* or one whitespace character of its input is deleted; any insertion or
\* deletion of whitespace is a sequence of such steps.
C7_WhitespaceIgnored ==
    Decoding =>
        LET raw == RawInput
            outcome == Outcome(result)
        IN  /\ \A i \in 0..Len(raw), w \in InsertedWhitespace :
                  CharBoundary(raw, i) =>
                      Outcome(ConvertInput(SubSeq(raw, 1, i) \o <<w>>
                                  \o SubSeq(raw, i + 1, Len(raw)))) = outcome
            /\ \A i \in DOMAIN raw :
                  (IsWhitespace(raw[i]) /\ raw[i] < 128) =>
                      Outcome(ConvertInput(SubSeq(raw, 1, i - 1)
                                  \o SubSeq(raw, i + 1, Len(raw)))) = outcome

\* "SGVsbG8= ", which ends in a blank, has decoded to "Hello"
C7_Witness ==
    /\ Decoding
    /\ options.inputType = "string"
    /\ options.input = <<83, 71, 86, 115, 98, 71, 56, 61, 32>>
    /\ result.success
    /\ result.content = HELLO

----------------------------------------------------------------------------
(* C8 *)

\* C8: for a file input, the requests that differ from the one made only in
\* the streaming flag and the chunk size return the same content.
C8_StreamingEquivalence ==
    (Called /\ options.inputType = "file") =>
        \A streaming \in BOOLEAN, chunkSize \in ChunkSizes :
            convert(files,
                    [options EXCEPT !.streaming = streaming, !.chunkSize = chunkSize],
                    0).content = result.content

----------------------------------------------------------------------------
(* C9 *)

\* the pieces of a text between its newlines
RECURSIVE Lines(_)
Lines(text) ==
    IF \E i \in DOMAIN text : <<text[i]>> = NL
    THEN LET first == CHOOSE i \in DOMAIN text :
                          /\ <<text[i]>> = NL
                          /\ \A j \in 1..(i - 1) : <<text[j]>> # NL
         IN  <<SubSeq(text, 1, first - 1)>>
                 \o Lines(SubSeq(text, first + 1, Len(text)))
    ELSE <<text>>

\* C9: the content of an encode with wrapAt = W > 0 is the unwrapped base64
\* text in lines of exactly W characters, the last one possibly shorter and
\* never empty, joined by single newlines with none at the end; without its
\* newlines it is the unwrapped text.
C9_Wrapping ==
    (Encoding /\ result.success /\ options.wrapAt > 0) =>
        LET base64 == toBase64(InputBytes)
            lines == Lines(result.content)
        IN  /\ Join(lines, <<>>) = base64
            /\ base64 = <<>> => result.content = <<>>
            /\ base64 # <<>> =>
                  \A i \in DOMAIN lines :
                      /\ lines[i] # <<>>
                      /\ Len(lines[i]) <= options.wrapAt
                      /\ i < Len(lines) => Len(lines[i]) = options.wrapAt

----------------------------------------------------------------------------
(* C10 *)

\* the base64 alphabet of RFC 4648, table 1
RFCAlphabet ==
    <<65, 66, 67, 68, 69, 70, 71, 72, 73, 74, 75, 76, 77,
      78, 79, 80, 81, 82, 83, 84, 85, 86, 87, 88, 89, 90,
      97, 98, 99, 100, 101, 102, 103, 104, 105, 106, 107, 108, 109,
      110, 111, 112, 113, 114, 115, 116, 117, 118, 119, 120, 121, 122,
      48, 49, 50, 51, 52, 53, 54, 55, 56, 57, 43, 47>>

\* the six-bit value RFC 4648 gives a character of the alphabet
RFCValue(c) == (CHOOSE i \in 1..64 : RFCAlphabet[i] = c) - 1

\* C10: the content of an encode, newlines of wrapping apart, is the RFC 4648
\* base64 of the input bytes: four characters of the alphabet for every three
\* bytes, carrying the same bits, a last group of one or two bytes padded
\* with "=" to four characters; the RFC vectors come out as listed.
C10_CanonicalEncoding ==
    (Encoding /\ result.success) =>
        LET text == SelectSeq(result.content, LAMBDA c : <<c>> # NL)
            b == InputBytes
            n == Len(b)
            full == n \div 3
            pads == (3 - (n % 3)) % 3
            v(i) == RFCValue(text[i])
        IN  /\ Len(text) = 4 * ((n + 2) \div 3)
            /\ \A i \in DOMAIN text :
                  IF i > Len(text) - pads
                  THEN IsPad(text[i])
                  ELSE text[i] \in Range(RFCAlphabet)
            /\ \A g \in 0..(full - 1) :
                  b[3 * g + 1] * 65536 + b[3 * g + 2] * 256 + b[3 * g + 3]
                      = v(4 * g + 1) * 262144 + v(4 * g + 2) * 4096
                            + v(4 * g + 3) * 64 + v(4 * g + 4)
            /\ n % 3 = 1 =>
                  b[n] * 16 = v(4 * full + 1) * 64 + v(4 * full + 2)
            /\ n % 3 = 2 =>
                  (b[n - 1] * 256 + b[n]) * 4
                      = v(4 * full + 1) * 4096 + v(4 * full + 2) * 64 + v(4 * full + 3)
            /\ \A vector \in RFC_4648_TEST_VECTORS :
                  b = vector.input => text = vector.expected

\* the string "foobar" has encoded to "Zm9vYmFy"
C10_Witness ==
    /\ Encoding
    /\ options.inputType = "string"
    /\ options.input = <<102, 111, 111, 98, 97, 114>>
    /\ result.success
    /\ result.content = <<90, 109, 57, 118, 89, 109, 70, 121>>

----------------------------------------------------------------------------
(* OutputFormatter: strings *)

\* String(n) of a non-negative integer
RECURSIVE ToDecimal(_)
ToDecimal(n) ==
    IF n < 10 THEN <<48 + n>> ELSE ToDecimal(n \div 10) \o <<48 + (n % 10)>>

\* str.toLowerCase(), which leaves everything but A-Z alone in ASCII
toLowerCase(str) ==
    [i \in DOMAIN str |-> IF str[i] \in 65..90 THEN str[i] + 32 ELSE str[i]]

\* str.replace(/c/g, by) for a single character c
ReplaceAll(str, c, by) ==
    Concat([i \in DOMAIN str |-> IF str[i] = c THEN by ELSE <<str[i]>>])

\* str.split(c) for a single character c
split(str, c) == PiecesBetween(str, {i \in DOMAIN str : str[i] = c})

\* a field of an object is set to something other than undefined
Has(obj, key) == key \in DOMAIN obj

\* a string field of an object is truthy: set and not ''
Truthy(obj, key) == key \in DOMAIN obj /\ obj[key] # <<>>

----------------------------------------------------------------------------
(* OutputFormatter: JSON.stringify(value, null, 2) *)

\* the hexadecimal digit of 0..15, in lower case
HexDigit(d) == IF d < 10 THEN 48 + d ELSE 87 + d

\* one character of a string inside a JSON string literal
JsonEscapeChar(c) ==
    CASE c = 34 -> <<92, 34>>
      [] c = 92 -> <<92, 92>>
      [] c = 8 -> <<92, 98>>
      [] c = 12 -> <<92, 102>>
      [] c = 10 -> <<92, 110>>
      [] c = 13 -> <<92, 114>>
      [] c = 9 -> <<92, 116>>
      [] c < 32 /\ c \notin {8, 9, 10, 12, 13} ->
             <<92, 117, 48, 48, HexDigit(c \div 16), HexDigit(c % 16)>>
      [] OTHER -> <<c>>

\* JSON.stringify of a string
JsonString(str) ==
    <<34>> \o Concat([i \in DOMAIN str |-> JsonEscapeChar(str[i])]) \o <<34>>

\* n blanks
Blanks(n) == [i \in 1..n |-> 32]

\* JSON.stringify of an object with at least one property, given as the
\* sequence of its <<key, rendered value>> pairs; indent is the object's depth
\* in blanks
JsonObject(entries, indent) ==
    <<123, 10>>
        \o Join([i \in DOMAIN entries |->
                    Blanks(indent + 2) \o JsonString(entries[i][1])
                        \o <<58, 32>> \o entries[i][2]],
                <<44, 10>>)
        \o <<10>> \o Blanks(indent) \o <<125>>

\* one property of an object: its key and its rendered value
Entry(key, value) == << <<key, value>> >>

\* the properties of a FileMetadata that JSON.stringify writes, in the order
\* the results are built with (filename, mimeType, size, hash); a property
\* that is undefined is left out
MetadataEntries(metadata) ==
    \* 'filename'
    (IF Has(metadata, "filename")
     THEN Entry(<<102, 105, 108, 101, 110, 97, 109, 101>>,
                JsonString(metadata.filename))
     ELSE <<>>)
    \* 'mimeType'
    \o (IF Has(metadata, "mimeType")
        THEN Entry(<<109, 105, 109, 101, 84, 121, 112, 101>>,
                   JsonString(metadata.mimeType))
        ELSE <<>>)
    \* 'size'
    \o Entry(<<115, 105, 122, 101>>, ToDecimal(metadata.size))
    \* 'hash'
    \o (IF Has(metadata, "hash")
        THEN Entry(<<104, 97, 115, 104>>, JsonString(metadata.hash))
        ELSE <<>>)

----------------------------------------------------------------------------
(* OutputFormatter *)

\* the column formatAsYaml wraps the content at
YamlWrapColumn == 76
\* the column formatAsMarkdown wraps the content at
FenceWrapColumn == 76

\* a wrapContent whose pattern takes line terminators as well (the dotAll
\* flag): the content is cut every wrapAt characters, whatever they are
wrapContent_DotAll(content, wrapAt) ==
    LET matches == [i \in 1..((Len(content) + wrapAt - 1) \div wrapAt) |->
                       SubSeq(content, (i - 1) * wrapAt + 1,
                              IF i * wrapAt < Len(content) THEN i * wrapAt
                              ELSE Len(content))]
    IN  IF matches = <<>> THEN content ELSE Join(matches, NL)

\* OutputFormatter.wrapContent
wrapContent(content, wrapAt) ==
    LET matches == MatchChunks(content, wrapAt)
    IN  IF matches = <<>> \/ Join(matches, NL) = <<>>
        THEN content
        ELSE Join(matches, NL)

\* an escaping that handles the quotes before the backslashes
escapeForJs_QuotesFirst(content) ==
    ReplaceAll(ReplaceAll(ReplaceAll(content, 34, <<92, 34>>), 92, <<92, 92>>),
               10, <<92, 110>>)

\* OutputFormatter.escapeForJs: \ to \\, then " to \", then newline to \n
escapeForJs(content) ==
    ReplaceAll(ReplaceAll(ReplaceAll(content, 92, <<92, 92>>), 34, <<92, 34>>),
               10, <<92, 110>>)

\* OutputFormatter.escapeForCss: \ to \\, then " to \"
escapeForCss(content) ==
    ReplaceAll(ReplaceAll(content, 92, <<92, 92>>), 34, <<92, 34>>)

\* '&amp;'
AMP == <<38, 97, 109, 112, 59>>
\* '&lt;'
LT == <<38, 108, 116, 59>>
\* '&gt;'
GT == <<38, 103, 116, 59>>
\* '&quot;'
QUOT == <<38, 113, 117, 111, 116, 59>>

\* OutputFormatter.escapeForHtml: & first, then < > " and ' (to '&#x27;')
escapeForHtml(content) ==
    ReplaceAll(ReplaceAll(ReplaceAll(ReplaceAll(ReplaceAll(content,
        38, AMP), 60, LT), 62, GT), 34, QUOT), 39, <<38, 35, 120, 50, 55, 59>>)

\* OutputFormatter.escapeForXml: & first, then < > " and ' (to '&apos;')
escapeForXml(content) ==
    ReplaceAll(ReplaceAll(ReplaceAll(ReplaceAll(ReplaceAll(content,
        38, AMP), 60, LT), 62, GT), 34, QUOT), 39, <<38, 97, 112, 111, 115, 59>>)

\* OutputFormatter.formatAsJson: JSON.stringify(output, null, 2) of
\* {data, size} and, with includeMetadata, metadata with processingTime added
formatAsJson(content, res, includeMetadata) ==
    JsonObject(
        \* 'data'
        Entry(<<100, 97, 116, 97>>, JsonString(content))
        \* 'size'
        \o Entry(<<115, 105, 122, 101>>, ToDecimal(Len(content)))
        \* 'metadata', 'processingTime'
        \o (IF includeMetadata
            THEN Entry(<<109, 101, 116, 97, 100, 97, 116, 97>>,
                       JsonObject(
                           MetadataEntries(res.metadata)
                               \o Entry(<<112, 114, 111, 99, 101, 115, 115, 105,
                                          110, 103, 84, 105, 109, 101>>,
                                        ToDecimal(res.processingTime)),
                           2))
            ELSE <<>>),
        0)

\* the lines formatAsYaml writes: wrapContent(content, 76).split('\n')
YamlLines(content) == split(wrapContent(content, YamlWrapColumn), 10)

\* OutputFormatter.formatAsJavaScript
formatAsJavaScript(content, res, includeMetadata) ==
    \* 'const base64Data = "'
       <<99, 111, 110, 115, 116, 32, 98, 97, 115, 101, 54, 52, 68, 97, 116,
         97, 32, 61, 32, 34>>
    \o escapeForJs(content)
    \* '";\n'
    \o <<34, 59, 10>>
    \o (IF includeMetadata
        THEN
                \* '\nconst metadata = '
                   <<10, 99, 111, 110, 115, 116, 32, 109, 101, 116, 97, 100, 97,
                     116, 97, 32, 61, 32>>
                \o JsonObject(MetadataEntries(res.metadata), 0)
                \* ';\n'
                \o <<59, 10>>
                \* '\nmodule.exports = { base64Data, metadata };\n'
                \o <<10, 109, 111, 100, 117, 108, 101, 46, 101, 120, 112, 111,
                     114, 116, 115, 32, 61, 32, 123, 32, 98, 97, 115, 101, 54, 52,
                     68, 97, 116, 97, 44, 32, 109, 101, 116, 97, 100, 97, 116, 97,
                     32, 125, 59, 10>>
        ELSE 
                \* '\nmodule.exports = base64Data;\n'
                   <<10, 109, 111, 100, 117, 108, 101, 46, 101, 120, 112, 111,
                     114, 116, 115, 32, 61, 32, 98, 97, 115, 101, 54, 52, 68, 97,
                     116, 97, 59, 10>>)

\* OutputFormatter.formatAsTypeScript
formatAsTypeScript(content, res, includeMetadata) ==
    \* 'export const base64Data: string = "'
       <<101, 120, 112, 111, 114, 116, 32, 99, 111, 110, 115, 116, 32, 98,
         97, 115, 101, 54, 52, 68, 97, 116, 97, 58, 32, 115, 116, 114, 105,
         110, 103, 32, 61, 32, 34>>
    \o escapeForJs(content)
    \* '";\n'
    \o <<34, 59, 10>>
    \o (IF includeMetadata
        THEN
                \* '\nexport interface FileMetadata {\n'
                   <<10, 101, 120, 112, 111, 114, 116, 32, 105, 110, 116, 101,
                     114, 102, 97, 99, 101, 32, 70, 105, 108, 101, 77, 101, 116,
                     97, 100, 97, 116, 97, 32, 123, 10>>
                \* '  filename?: string;\n'
                \o <<32, 32, 102, 105, 108, 101, 110, 97, 109, 101, 63, 58, 32,
                     115, 116, 114, 105, 110, 103, 59, 10>>
                \* '  mimeType?: string;\n'
                \o <<32, 32, 109, 105, 109, 101, 84, 121, 112, 101, 63, 58, 32,
                     115, 116, 114, 105, 110, 103, 59, 10>>
                \* '  size: number;\n'
                \o <<32, 32, 115, 105, 122, 101, 58, 32, 110, 117, 109, 98, 101,
                     114, 59, 10>>
                \* '  created?: string;\n'
                \o <<32, 32, 99, 114, 101, 97, 116, 101, 100, 63, 58, 32, 115,
                     116, 114, 105, 110, 103, 59, 10>>
                \* '  modified?: string;\n'
                \o <<32, 32, 109, 111, 100, 105, 102, 105, 101, 100, 63, 58, 32,
                     115, 116, 114, 105, 110, 103, 59, 10>>
                \* '  hash?: string;\n'
                \o <<32, 32, 104, 97, 115, 104, 63, 58, 32, 115, 116, 114, 105,
                     110, 103, 59, 10>>
                \* '}\n\n'
                \o <<125, 10, 10>>
                \* 'export const metadata: FileMetadata = '
                \o <<101, 120, 112, 111, 114, 116, 32, 99, 111, 110, 115, 116, 32,
                     109, 101, 116, 97, 100, 97, 116, 97, 58, 32, 70, 105, 108,
                     101, 77, 101, 116, 97, 100, 97, 116, 97, 32, 61, 32>>
                \o JsonObject(MetadataEntries(res.metadata), 0)
                \* ';\n'
                \o <<59, 10>>
        ELSE <<>>)

\* OutputFormatter.formatAsCss
formatAsCss(content, res) ==
    \* '.base64-data {\n  --base64-content: "'
       <<46, 98, 97, 115, 101, 54, 52, 45, 100, 97, 116, 97, 32, 123, 10,
         32, 32, 45, 45, 98, 97, 115, 101, 54, 52, 45, 99, 111, 110, 116,
         101, 110, 116, 58, 32, 34>>
    \o escapeForCss(content)
    \* '";\n}\n\n'
    \o <<34, 59, 10, 125, 10, 10>>
    \* '.base64-data::before {\n  content: var(--base64-content);\n}\n'
    \o <<46, 98, 97, 115, 101, 54, 52, 45, 100, 97, 116, 97, 58, 58, 98,
         101, 102, 111, 114, 101, 32, 123, 10, 32, 32, 99, 111, 110, 116,
         101, 110, 116, 58, 32, 118, 97, 114, 40, 45, 45, 98, 97, 115, 101,
         54, 52, 45, 99, 111, 110, 116, 101, 110, 116, 41, 59, 10, 125, 10>>

\* OutputFormatter.formatAsHtml
formatAsHtml(content, res, includeMetadata) ==
    \* '<!DOCTYPE html>\n<html lang="en">\n<head>\n'
       <<60, 33, 68, 79, 67, 84, 89, 80, 69, 32, 104, 116, 109, 108, 62,
         10, 60, 104, 116, 109, 108, 32, 108, 97, 110, 103, 61, 34, 101,
         110, 34, 62, 10, 60, 104, 101, 97, 100, 62, 10>>
    \* '  <meta charset="UTF-8">\n'
    \o <<32, 32, 60, 109, 101, 116, 97, 32, 99, 104, 97, 114, 115, 101,
         116, 61, 34, 85, 84, 70, 45, 56, 34, 62, 10>>
    \* '  <meta name="viewport" content="width=device-width, initial-scale=1.0">\n'
    \o <<32, 32, 60, 109, 101, 116, 97, 32, 110, 97, 109, 101, 61, 34, 118,
         105, 101, 119, 112, 111, 114, 116, 34, 32, 99, 111, 110, 116, 101,
         110, 116, 61, 34, 119, 105, 100, 116, 104, 61, 100, 101, 118, 105,
         99, 101, 45, 119, 105, 100, 116, 104, 44, 32, 105, 110, 105, 116,
         105, 97, 108, 45, 115, 99, 97, 108, 101, 61, 49, 46, 48, 34, 62,
         10>>
    \* '  <title>Base64 Data</title>\n'
    \o <<32, 32, 60, 116, 105, 116, 108, 101, 62, 66, 97, 115, 101, 54, 52,
         32, 68, 97, 116, 97, 60, 47, 116, 105, 116, 108, 101, 62, 10>>
    \* '</head>\n<body>\n'
    \o <<60, 47, 104, 101, 97, 100, 62, 10, 60, 98, 111, 100, 121, 62, 10>>
    \* '  <div class="base64-data" data-content="'
    \o <<32, 32, 60, 100, 105, 118, 32, 99, 108, 97, 115, 115, 61, 34, 98,
         97, 115, 101, 54, 52, 45, 100, 97, 116, 97, 34, 32, 100, 97, 116,
         97, 45, 99, 111, 110, 116, 101, 110, 116, 61, 34>>
    \o escapeForHtml(content)
    \* '"></div>\n'
    \o <<34, 62, 60, 47, 100, 105, 118, 62, 10>>
    \o (IF includeMetadata
        THEN
                \* '  <div class="metadata">\n'
                   <<32, 32, 60, 100, 105, 118, 32, 99, 108, 97, 115, 115, 61, 34,
                     109, 101, 116, 97, 100, 97, 116, 97, 34, 62, 10>>
                \* '    <h3>File Information</h3>\n'
                \o <<32, 32, 32, 32, 60, 104, 51, 62, 70, 105, 108, 101, 32, 73,
                     110, 102, 111, 114, 109, 97, 116, 105, 111, 110, 60, 47, 104,
                     51, 62, 10>>
                \o (IF Truthy(res.metadata, "filename")
                    THEN
                            \* '    <p><strong>Filename:</strong> '
                               <<32, 32, 32, 32, 60, 112, 62, 60, 115, 116, 114, 111, 110,
                                 103, 62, 70, 105, 108, 101, 110, 97, 109, 101, 58, 60, 47,
                                 115, 116, 114, 111, 110, 103, 62, 32>>
                            \o escapeForHtml(res.metadata.filename)
                            \* '</p>\n'
                            \o <<60, 47, 112, 62, 10>>
                    ELSE <<>>)
                \o (IF Truthy(res.metadata, "mimeType")
                    THEN
                            \* '    <p><strong>MIME Type:</strong> '
                               <<32, 32, 32, 32, 60, 112, 62, 60, 115, 116, 114, 111, 110,
                                 103, 62, 77, 73, 77, 69, 32, 84, 121, 112, 101, 58, 60, 47,
                                 115, 116, 114, 111, 110, 103, 62, 32>>
                            \o res.metadata.mimeType
                            \* '</p>\n'
                            \o <<60, 47, 112, 62, 10>>
                    ELSE <<>>)
                \* '    <p><strong>Size:</strong> '
                \o <<32, 32, 32, 32, 60, 112, 62, 60, 115, 116, 114, 111, 110,
                     103, 62, 83, 105, 122, 101, 58, 60, 47, 115, 116, 114, 111,
                     110, 103, 62, 32>>
                \o ToDecimal(res.metadata.size)
                \* ' bytes</p>\n'
                \o <<32, 98, 121, 116, 101, 115, 60, 47, 112, 62, 10>>
                \* '  </div>\n'
                \o <<32, 32, 60, 47, 100, 105, 118, 62, 10>>
        ELSE <<>>)
    \* '</body>\n</html>\n'
    \o <<60, 47, 98, 111, 100, 121, 62, 10, 60, 47, 104, 116, 109, 108, 62,
         10>>

\* OutputFormatter.formatAsXml
formatAsXml(content, res, includeMetadata) ==
    \* '<?xml version="1.0" encoding="UTF-8"?>\n'
       <<60, 63, 120, 109, 108, 32, 118, 101, 114, 115, 105, 111, 110, 61,
         34, 49, 46, 48, 34, 32, 101, 110, 99, 111, 100, 105, 110, 103, 61,
         34, 85, 84, 70, 45, 56, 34, 63, 62, 10>>
    \* '<base64-data>\n'
    \o <<60, 98, 97, 115, 101, 54, 52, 45, 100, 97, 116, 97, 62, 10>>
    \* '  <content>'
    \o <<32, 32, 60, 99, 111, 110, 116, 101, 110, 116, 62>>
    \o escapeForXml(content)
    \* '</content>\n'
    \o <<60, 47, 99, 111, 110, 116, 101, 110, 116, 62, 10>>
    \o (IF includeMetadata
        THEN
                \* '  <metadata>\n'
                   <<32, 32, 60, 109, 101, 116, 97, 100, 97, 116, 97, 62, 10>>
                \o (IF Truthy(res.metadata, "filename")
                    THEN
                            \* '    <filename>'
                               <<32, 32, 32, 32, 60, 102, 105, 108, 101, 110, 97, 109, 101,
                                 62>>
                            \o escapeForXml(res.metadata.filename)
                            \* '</filename>\n'
                            \o <<60, 47, 102, 105, 108, 101, 110, 97, 109, 101, 62, 10>>
                    ELSE <<>>)
                \o (IF Truthy(res.metadata, "mimeType")
                    THEN
                            \* '    <mime-type>'
                               <<32, 32, 32, 32, 60, 109, 105, 109, 101, 45, 116, 121, 112,
                                 101, 62>>
                            \o res.metadata.mimeType
                            \* '</mime-type>\n'
                            \o <<60, 47, 109, 105, 109, 101, 45, 116, 121, 112, 101, 62, 10>>
                    ELSE <<>>)
                \* '    <size>'
                \o <<32, 32, 32, 32, 60, 115, 105, 122, 101, 62>>
                \o ToDecimal(res.metadata.size)
                \* '</size>\n'
                \o <<60, 47, 115, 105, 122, 101, 62, 10>>
                \o (IF Truthy(res.metadata, "hash")
                    THEN
                            \* '    <hash>'
                               <<32, 32, 32, 32, 60, 104, 97, 115, 104, 62>>
                            \o res.metadata.hash
                            \* '</hash>\n'
                            \o <<60, 47, 104, 97, 115, 104, 62, 10>>
                    ELSE <<>>)
                \* '  </metadata>\n'
                \o <<32, 32, 60, 47, 109, 101, 116, 97, 100, 97, 116, 97, 62, 10>>
        ELSE <<>>)
    \* '</base64-data>\n'
    \o <<60, 47, 98, 97, 115, 101, 54, 52, 45, 100, 97, 116, 97, 62, 10>>

\* OutputFormatter.formatAsYaml
formatAsYaml(content, res, includeMetadata) ==
    \* 'base64_data: |\n'
       <<98, 97, 115, 101, 54, 52, 95, 100, 97, 116, 97, 58, 32, 124, 10>>
    \o (LET lines == YamlLines(content)
        IN  Concat([i \in DOMAIN lines |-> <<32, 32>> \o lines[i] \o NL]))
    \o (IF includeMetadata
        THEN
                \* '\nmetadata:\n'
                   <<10, 109, 101, 116, 97, 100, 97, 116, 97, 58, 10>>
                \o (IF Truthy(res.metadata, "filename")
                    THEN
                            \* '  filename: "'
                               <<32, 32, 102, 105, 108, 101, 110, 97, 109, 101, 58, 32, 34>>
                            \o res.metadata.filename
                            \* '"\n'
                            \o <<34, 10>>
                    ELSE <<>>)
                \o (IF Truthy(res.metadata, "mimeType")
                    THEN
                            \* '  mime_type: "'
                               <<32, 32, 109, 105, 109, 101, 95, 116, 121, 112, 101, 58, 32,
                                 34>>
                            \o res.metadata.mimeType
                            \* '"\n'
                            \o <<34, 10>>
                    ELSE <<>>)
                \* '  size: '
                \o <<32, 32, 115, 105, 122, 101, 58, 32>>
                \o ToDecimal(res.metadata.size)
                \* '\n'
                \o <<10>>
                \o (IF Truthy(res.metadata, "hash")
                    THEN
                            \* '  hash: "'
                               <<32, 32, 104, 97, 115, 104, 58, 32, 34>>
                            \o res.metadata.hash
                            \* '"\n'
                            \o <<34, 10>>
                    ELSE <<>>)
        ELSE <<>>)

\* OutputFormatter.formatAsMarkdown
formatAsMarkdown(content, res, includeMetadata) ==
    \* '# Base64 Data\n\n'
       <<35, 32, 66, 97, 115, 101, 54, 52, 32, 68, 97, 116, 97, 10, 10>>
    \o (IF includeMetadata /\ Truthy(res.metadata, "filename")
        THEN
                \* '## File: '
                   <<35, 35, 32, 70, 105, 108, 101, 58, 32>>
                \o res.metadata.filename
                \* '\n\n'
                \o <<10, 10>>
        ELSE <<>>)
    \* '```base64\n'
    \o <<96, 96, 96, 98, 97, 115, 101, 54, 52, 10>>
    \o wrapContent(content, FenceWrapColumn)
    \* '\n```\n'
    \o <<10, 96, 96, 96, 10>>
    \o (IF includeMetadata
        THEN
                \* '\n## Metadata\n\n'
                   <<10, 35, 35, 32, 77, 101, 116, 97, 100, 97, 116, 97, 10, 10>>
                \o (IF Truthy(res.metadata, "mimeType")
                    THEN
                            \* '- **MIME Type:** '
                               <<45, 32, 42, 42, 77, 73, 77, 69, 32, 84, 121, 112, 101, 58,
                                 42, 42, 32>>
                            \o res.metadata.mimeType
                            \* '\n'
                            \o <<10>>
                    ELSE <<>>)
                \* '- **Size:** '
                \o <<45, 32, 42, 42, 83, 105, 122, 101, 58, 42, 42, 32>>
                \o ToDecimal(res.metadata.size)
                \* ' bytes\n'
                \o <<32, 98, 121, 116, 101, 115, 10>>
                \o (IF Truthy(res.metadata, "hash")
                    THEN
                            \* '- **SHA256:** `'
                               <<45, 32, 42, 42, 83, 72, 65, 50, 53, 54, 58, 42, 42, 32, 96>>
                            \o res.metadata.hash
                            \* '`\n'
                            \o <<96, 10>>
                    ELSE <<>>)
                \* '- **Processing Time:** '
                \o <<45, 32, 42, 42, 80, 114, 111, 99, 101, 115, 115, 105, 110,
                     103, 32, 84, 105, 109, 101, 58, 42, 42, 32>>
                \o ToDecimal(res.processingTime)
                \* 'ms\n'
                \o <<109, 115, 10>>
        ELSE <<>>)

\* the content of a result as its own type: a string, a Buffer, null or
\* undefined
StringContent(str) == [type |-> "string", value |-> str]
BufferContent(bytes) == [type |-> "Buffer", value |-> bytes]
NullContent == [type |-> "null"]
UndefinedContent == [type |-> "undefined"]

\* the first statement of format: the content as text; toString of null or
\* undefined throws a TypeError
ContentText(res) ==
    CASE res.content.type = "string" -> Return(res.content.value)
      [] res.content.type = "Buffer" -> Return(Utf8Decode(res.content.value))
      [] res.content.type = "null" ->
             Throw(
               \* 'Cannot read properties of null (reading 'toString')'
               <<67, 97, 110, 110, 111, 116, 32, 114, 101, 97, 100, 32,
                 112, 114, 111, 112, 101, 114, 116, 105, 101, 115, 32, 111,
                 102, 32, 110, 117, 108, 108, 32, 40, 114, 101, 97, 100,
                 105, 110, 103, 32, 39, 116, 111, 83, 116, 114, 105, 110,
                 103, 39, 41>>)
      [] res.content.type = "undefined" ->
             Throw(
               \* 'Cannot read properties of undefined (reading 'toString')'
               <<67, 97, 110, 110, 111, 116, 32, 114, 101, 97, 100, 32,
                 112, 114, 111, 112, 101, 114, 116, 105, 101, 115, 32, 111,
                 102, 32, 117, 110, 100, 101, 102, 105, 110, 101, 100, 32,
                 40, 114, 101, 97, 100, 105, 110, 103, 32, 39, 116, 111,
                 83, 116, 114, 105, 110, 103, 39, 41>>)

\* 'data:'
DATA_PREFIX == <<100, 97, 116, 97, 58>>
\* ';base64,'
BASE64_MARK == <<59, 98, 97, 115, 101, 54, 52, 44>>

\* the content format hands to the templates: wrapped when wrapAt is set
\* and positive (0 stands for no wrapAt), then made a data URI when dataUri
\* is set and the result has a MIME type
PreparedContent(text, res, opts) ==
    LET wrapped == IF opts.wrapAt # 0 /\ opts.wrapAt > 0
                   THEN wrapContent(text, opts.wrapAt)
                   ELSE text
    IN  IF opts.dataUri /\ Truthy(res.metadata, "mimeType")
        THEN DATA_PREFIX \o res.metadata.mimeType \o BASE64_MARK \o wrapped
        ELSE wrapped

\* 'Unsupported output format: '
UNSUPPORTED == 
    <<85, 110, 115, 117, 112, 112, 111, 114, 116, 101, 100, 32, 111, 117,
      116, 112, 117, 116, 32, 102, 111, 114, 109, 97, 116, 58, 32>>
\* 'raw'
NAME_raw == <<114, 97, 119>>
\* 'json'
NAME_json == <<106, 115, 111, 110>>
\* 'js'
NAME_js == <<106, 115>>
\* 'javascript'
NAME_javascript == <<106, 97, 118, 97, 115, 99, 114, 105, 112, 116>>
\* 'ts'
NAME_ts == <<116, 115>>
\* 'typescript'
NAME_typescript == <<116, 121, 112, 101, 115, 99, 114, 105, 112, 116>>
\* 'css'
NAME_css == <<99, 115, 115>>
\* 'html'
NAME_html == <<104, 116, 109, 108>>
\* 'xml'
NAME_xml == <<120, 109, 108>>
\* 'yaml'
NAME_yaml == <<121, 97, 109, 108>>
\* 'yml'
NAME_yml == <<121, 109, 108>>
\* 'markdown'
NAME_markdown == <<109, 97, 114, 107, 100, 111, 119, 110>>
\* 'md'
NAME_md == <<109, 100>>

\* a format that compares the name as it was given
format_CaseSensitive(res, formatName, opts) ==
    LET text == ContentText(res)
        content == PreparedContent(text.value, res, opts)
        name == formatName
    IN  IF text.threw THEN text
        ELSE CASE name = NAME_raw -> Return(content)
               [] name = NAME_json ->
                      Return(formatAsJson(content, res, opts.includeMetadata))
               [] name \in {NAME_js, NAME_javascript} ->
                      Return(formatAsJavaScript(content, res, opts.includeMetadata))
               [] name \in {NAME_ts, NAME_typescript} ->
                      Return(formatAsTypeScript(content, res, opts.includeMetadata))
               [] name = NAME_css -> Return(formatAsCss(content, res))
               [] name = NAME_html ->
                      Return(formatAsHtml(content, res, opts.includeMetadata))
               [] name = NAME_xml ->
                      Return(formatAsXml(content, res, opts.includeMetadata))
               [] name \in {NAME_yaml, NAME_yml} ->
                      Return(formatAsYaml(content, res, opts.includeMetadata))
               [] name \in {NAME_markdown, NAME_md} ->
                      Return(formatAsMarkdown(content, res, opts.includeMetadata))
               [] OTHER -> Throw(UNSUPPORTED \o formatName)

\* OutputFormatter.format, called with a format name
format(res, formatName, opts) ==
    LET text == ContentText(res)
        content == PreparedContent(text.value, res, opts)
        name == toLowerCase(formatName)
    IN  IF text.threw THEN text
        ELSE CASE name = NAME_raw -> Return(content)
               [] name = NAME_json ->
                      Return(formatAsJson(content, res, opts.includeMetadata))
               [] name \in {NAME_js, NAME_javascript} ->
                      Return(formatAsJavaScript(content, res, opts.includeMetadata))
               [] name \in {NAME_ts, NAME_typescript} ->
                      Return(formatAsTypeScript(content, res, opts.includeMetadata))
               [] name = NAME_css -> Return(formatAsCss(content, res))
               [] name = NAME_html ->
                      Return(formatAsHtml(content, res, opts.includeMetadata))
               [] name = NAME_xml ->
                      Return(formatAsXml(content, res, opts.includeMetadata))
               [] name \in {NAME_yaml, NAME_yml} ->
                      Return(formatAsYaml(content, res, opts.includeMetadata))
               [] name \in {NAME_markdown, NAME_md} ->
                      Return(formatAsMarkdown(content, res, opts.includeMetadata))
               [] OTHER -> Throw(UNSUPPORTED \o formatName)

----------------------------------------------------------------------------
(* The calls of format that are enumerated *)

\* longest content enumerated over EscapeChars
MaxContentLen == 2
\* 'A'.repeat(100), the long content of the wrapping test
LongLen == 100

\* 'n', '"', '\' and the newline
EscapeChars == {110, 34, 92, 10}

LongContent == [i \in 1..LongLen |-> 65]

\* the contents of the formatter's tests, and '&amp;'
TestContents ==
    {
      \* 'SGVsbG8sIFdvcmxkIQ=='
      <<83, 71, 86, 115, 98, 71, 56, 115, 73, 70, 100, 118, 99, 109, 120,
        107, 73, 81, 61, 61>>,
      <<>>,
      \* 'Test\nWith"Quotes\\AndBackslashes'
      <<84, 101, 115, 116, 10, 87, 105, 116, 104, 34, 81, 117, 111, 116,
        101, 115, 92, 65, 110, 100, 66, 97, 99, 107, 115, 108, 97, 115,
        104, 101, 115>>,
      \* 'Test"With\\Quotes'
      <<84, 101, 115, 116, 34, 87, 105, 116, 104, 92, 81, 117, 111, 116,
        101, 115>>,
      \* 'Test<>&"'Content'
      <<84, 101, 115, 116, 60, 62, 38, 34, 39, 67, 111, 110, 116, 101, 110,
        116>>,
      \* '&amp;'
      <<38, 97, 109, 112, 59>>,
      LongContent
    }

\* the metadata of mockResult
MockMetadata ==
    [filename |->
      \* 'test.txt'
      <<116, 101, 115, 116, 46, 116, 120, 116>>,
     mimeType |->
      \* 'text/plain'
      <<116, 101, 120, 116, 47, 112, 108, 97, 105, 110>>,
     size |-> 13,
     hash |->
      \* 'abc123def456789'
      <<97, 98, 99, 49, 50, 51, 100, 101, 102, 52, 53, 54, 55, 56, 57>>]

\* mockResult's metadata, the variations the tests make of it, the metadata
\* of a failed conversion, and values with characters that markup escapes
TestMetadata ==
    {
      MockMetadata,
      \* mimeType: undefined
      [k \in {"filename", "size", "hash"} |-> MockMetadata[k]],
      \* mimeType: ''
      [MockMetadata EXCEPT !.mimeType = <<>>],
      [MockMetadata EXCEPT !.filename =
      \* 'test<>&"'.txt'
      <<116, 101, 115, 116, 60, 62, 38, 34, 39, 46, 116, 120, 116>>],
      [size |-> 0],
      [filename |->
      \* 'a"b'
      <<97, 34, 98>>,
       mimeType |->
      \* 'x/<&>'
      <<120, 47, 60, 38, 62>>,
       size |-> 1,
       hash |->
      \* '''
      <<39>>]
    }

\* a ConversionResult as the tests build it
MockResult(content, metadata) ==
    [content |-> content, metadata |-> metadata, processingTime |-> 42,
     success |-> TRUE]

\* every short content with mockResult's metadata, and the contents of the
\* tests, two Buffers, null and undefined with every metadata
FormatResults ==
    {MockResult(StringContent(s), MockMetadata) :
        s \in BoundedSeq(EscapeChars, MaxContentLen)}
    \cup {MockResult(c, m) :
            c \in {StringContent(s) : s \in TestContents}
                    \cup {BufferContent(Utf8Encode(HELLO)), BufferContent(<<255>>),
                          NullContent, UndefinedContent},
            m \in TestMetadata}

\* the names format recognizes, in lower case
RecognizedNames ==
    {NAME_raw, NAME_json, NAME_js, NAME_javascript, NAME_ts, NAME_typescript,
     NAME_css, NAME_html, NAME_xml, NAME_yaml, NAME_yml, NAME_markdown, NAME_md}

\* the names of the case test and other casings
MixedCaseNames ==
    {
      \* 'JS'
      <<74, 83>>,
      \* 'Json'
      <<74, 115, 111, 110>>,
      \* 'HTML'
      <<72, 84, 77, 76>>,
      \* 'XML'
      <<88, 77, 76>>,
      \* 'YML'
      <<89, 77, 76>>,
      \* 'TypeScript'
      <<84, 121, 112, 101, 83, 99, 114, 105, 112, 116>>,
      \* 'Md'
      <<77, 100>>,
      \* 'RAW'
      <<82, 65, 87>>
    }

\* names format does not know
UnknownNames ==
    {
      \* 'unsupported'
      <<117, 110, 115, 117, 112, 112, 111, 114, 116, 101, 100>>,
      \* 'Unsupported'
      <<85, 110, 115, 117, 112, 112, 111, 114, 116, 101, 100>>,
      <<>>
    }

FormatNames == RecognizedNames \cup MixedCaseNames \cup UnknownNames

\* the wrapAt of a call: none (0), those of the wrapping tests, and one above
\* the 76 columns of yaml and markdown
FormatWraps == {0, 20, 76, 80}

FormatOptions ==
    [wrapAt : FormatWraps, dataUri : BOOLEAN, includeMetadata : BOOLEAN]

----------------------------------------------------------------------------
(* The state machine of a caller of one formatter *)

\* the caller, idle, picks a result, a format name and the render options
CallFormat ==
    /\ formatCall = NoFormatCall
    /\ \E r \in FormatResults, name \in FormatNames, o \in FormatOptions :
           formatCall' = [result |-> r, format |-> name, options |-> o]
    /\ UNCHANGED <<engineVars, formatted, calls, serverVars>>

\* a format that stores the text it prepared in the result it was given
Format_Mutating ==
    /\ formatCall # NoFormatCall
    /\ formatted = NoFormatted
    /\ formatted' = format(formatCall.result, formatCall.format, formatCall.options)
    /\ formatCall' =
           IF formatted'.threw THEN formatCall
           ELSE [formatCall EXCEPT !.result.content =
                    StringContent(PreparedContent(ContentText(formatCall.result).value,
                                                  formatCall.result,
                                                  formatCall.options))]
    /\ UNCHANGED <<engineVars, calls, serverVars>>

\* await formatter.format(result, format, options): the call returns or throws
\* and assigns to nothing the caller passed
Format ==
    /\ formatCall # NoFormatCall
    /\ formatted = NoFormatted
    /\ formatted' = format(formatCall.result, formatCall.format, formatCall.options)
    /\ UNCHANGED <<engineVars, formatCall, calls, serverVars>>

\* the caller has used the text and is ready for its next call
FormatDone ==
    /\ formatted # NoFormatted
    /\ formatCall' = NoFormatCall
    /\ formatted' = NoFormatted
    /\ UNCHANGED <<engineVars, calls, serverVars>>

FormatNext == CallFormat \/ Format \/ FormatDone

FormatSpec == Init /\ [][FormatNext]_vars

----------------------------------------------------------------------------
(* What the properties of the formatter speak about *)

\* a call of format has returned or thrown
FormatReturned == formatted # NoFormatted

\* the call returned text
FormatSucceeded == FormatReturned /\ ~formatted.threw

\* the name of the call is one of names, whatever its letter-casing
NameIs(names) ==
    \E n \in names :
        /\ Len(n) = Len(formatCall.format)
        /\ \A i \in DOMAIN n :
               \/ formatCall.format[i] = n[i]
               \/ n[i] \in 97..122 /\ formatCall.format[i] = n[i] - 32

\* the content of a result as text where null and undefined count as ''
TextOf(res) ==
    CASE res.content.type = "string" -> res.content.value
      [] res.content.type = "Buffer" -> Utf8Decode(res.content.value)
      [] OTHER -> <<>>

\* the number of places of str that hold a character of chars
Count(str, chars) == Cardinality({i \in DOMAIN str : str[i] \in chars})

\* str starts with prefix
StartsWith(str, prefix) ==
    Len(str) >= Len(prefix) /\ SubSeq(str, 1, Len(prefix)) = prefix

----------------------------------------------------------------------------
(* C11 *)

\* C11: whenever the format name matches none of the recognized names, format
\* fails with 'Unsupported output format: ' followed by the name as given; it
\* never returns text for such a name.
C11_UnsupportedFormat ==
    FormatReturned /\ ~NameIs(RecognizedNames) =>
        /\ formatted.threw
        /\ formatted.message = UNSUPPORTED \o formatCall.format

----------------------------------------------------------------------------
(* C12 *)

\* the recognized name behind a name: its lower case, a synonym replaced by
\* the short name of its pair
ShortName(name) ==
    LET lower == [i \in DOMAIN name |->
                     IF name[i] \in 65..90 THEN name[i] + 32 ELSE name[i]]
    IN  CASE lower = NAME_typescript -> NAME_ts
          [] lower = NAME_javascript -> NAME_js
          [] lower = NAME_yml -> NAME_yaml
          [] lower = NAME_markdown -> NAME_md
          [] OTHER -> lower

\* C12: for every result and options, format gives the same outcome for any
\* letter-casing of a recognized name and for both names of a synonym pair
\* (ts/typescript, js/javascript, yaml/yml, md/markdown).
C12_CaseAndSynonyms ==
    FormatReturned /\ NameIs(RecognizedNames) =>
        \A other \in FormatNames :
            ShortName(other) = ShortName(formatCall.format) =>
                format(formatCall.result, other, formatCall.options) = formatted

\* 'TypeScript', another casing of one name of a pair, has been rendered
C12_Witness ==
    /\ FormatSucceeded
    /\ formatCall.format = <<84, 121, 112, 101, 83, 99, 114, 105, 112, 116>>
    /\ TextOf(formatCall.result) # <<>>

----------------------------------------------------------------------------
(* C13 *)

\* the call asks for a data URI and its result has a MIME type
WantsDataUri ==
    formatCall.options.dataUri /\ Truthy(formatCall.result.metadata, "mimeType")

\* the content of the call after the wrapping step
WrappedText ==
    IF formatCall.options.wrapAt > 0
    THEN wrapContent(TextOf(formatCall.result), formatCall.options.wrapAt)
    ELSE TextOf(formatCall.result)

\* C13: with dataUri requested and a MIME type in the metadata, every format
\* is rendered from exactly 'data:<mimeType>;base64,<content>', that is, the
\* call gives what the same format gives for a result with that content and
\* no further preparation; with the MIME type absent or empty the call gives
\* what it gives with dataUri not requested.
C13_DataUri ==
    FormatReturned =>
        IF WantsDataUri
        THEN formatted =
                 format([formatCall.result EXCEPT !.content =
                            StringContent(DATA_PREFIX
                                \o formatCall.result.metadata.mimeType
                                \o BASE64_MARK \o WrappedText)],
                        formatCall.format,
                        [formatCall.options EXCEPT !.dataUri = FALSE, !.wrapAt = 0])
        ELSE formatted =
                 format(formatCall.result, formatCall.format,
                        [formatCall.options EXCEPT !.dataUri = FALSE])

----------------------------------------------------------------------------
(* C14 *)

\* C14: for every recognized name, format called on a result whose content is
\* '', null or undefined does not fail: it returns what the format gives for
\* the empty content.
C14_EmptyContent ==
    /\ FormatReturned
    /\ NameIs(RecognizedNames)
    /\ formatCall.result.content
           \in {StringContent(<<>>), NullContent, UndefinedContent}
    => /\ ~formatted.threw
       /\ formatted =
              format([formatCall.result EXCEPT !.content = StringContent(<<>>)],
                     formatCall.format, formatCall.options)

----------------------------------------------------------------------------
(* C15 *)

\* 'const base64Data = "'
JS_OPENING ==
    <<99, 111, 110, 115, 116, 32, 98, 97, 115, 101, 54, 52, 68, 97, 116, 97,
      32, 61, 32, 34>>
\* 'export const base64Data: string = "'
TS_OPENING ==
    <<101, 120, 112, 111, 114, 116, 32, 99, 111, 110, 115, 116, 32, 98, 97,
      115, 101, 54, 52, 68, 97, 116, 97, 58, 32, 115, 116, 114, 105, 110, 103,
      32, 61, 32, 34>>

\* the number of backslashes that stand in a row just before place i of str
BackslashesBefore(str, i) ==
    CHOOSE n \in 0..(i - 1) :
        /\ \A k \in 1..n : str[i - k] = 92
        /\ n = i - 1 \/ str[i - 1 - n] # 92

\* place i of str is taken by the backslash before it: that backslash is the
\* odd one of its row
Escaped(str, i) == BackslashesBefore(str, i) % 2 = 1

\* the place of the double quote that closes a literal whose text starts str:
\* the first one that no backslash takes; 0 if there is none
ClosingQuote(str) ==
    LET quotes == {i \in DOMAIN str : str[i] = 34 /\ ~Escaped(str, i)}
    IN  IF quotes = {} THEN 0
        ELSE CHOOSE i \in quotes : \A k \in quotes : i <= k

\* every backslash of literal that starts an escape is followed by one of
\* \ " and n
WellEscaped(literal) ==
    \A i \in DOMAIN literal :
        Escaped(literal, i) => literal[i] \in {92, 34, 110}

\* literal read back: \\ is a backslash, \" a double quote, \n a newline
Unescape(literal) ==
    LET kept == SelectSeq([i \in DOMAIN literal |-> i],
                          LAMBDA i : literal[i] # 92 \/ Escaped(literal, i))
    IN  [k \in DOMAIN kept |->
            IF Escaped(literal, kept[k]) /\ literal[kept[k]] = 110
            THEN 10
            ELSE literal[kept[k]]]

\* the text of a js or ts rendering after the opening of its constant
AfterOpening ==
    LET opening == IF NameIs({NAME_js, NAME_javascript}) THEN JS_OPENING
                   ELSE TS_OPENING
    IN  SubSeq(formatted.value, Len(opening) + 1, Len(formatted.value))

\* the content the call hands to the template
ContentFed ==
    PreparedContent(TextOf(formatCall.result), formatCall.result,
                    formatCall.options)

\* C15: in the js and ts formats the literal between the quotes of the
\* constant holds no raw newline and no double quote without its backslash,
\* ends at '";' and a newline, and read back (\\ to \, \" to ", \n to a
\* newline) is exactly the content that was rendered.
C15_JsEscaping ==
    FormatSucceeded /\ NameIs({NAME_js, NAME_javascript, NAME_ts, NAME_typescript}) =>
        LET rest == AfterOpening
            close == ClosingQuote(rest)
            literal == SubSeq(rest, 1, close - 1)
        IN  /\ close > 0
            /\ 10 \notin Range(literal)
            /\ WellEscaped(literal)
            /\ StartsWith(SubSeq(rest, close + 1, Len(rest)), <<59, 10>>)
            /\ Unescape(literal) = ContentFed

\* the js rendering of a content with a newline, a double quote and a
\* backslash has been made
C15_Witness ==
    /\ FormatSucceeded
    /\ NameIs({NAME_js})
    /\ {10, 34, 92} \subseteq Range(ContentFed)

----------------------------------------------------------------------------
(* C16 *)

\* & < > " '
MarkupChars == {38, 60, 62, 34, 39}

\* str with a plain letter in place of each of the five characters
Plain(str) == [i \in DOMAIN str |-> IF str[i] \in MarkupChars THEN 120 ELSE str[i]]

\* the result of the call with the five characters taken out of its content,
\* filename, MIME type and hash
PlainResult ==
    LET res == formatCall.result
    IN  [res EXCEPT
            !.content = StringContent(Plain(TextOf(res))),
            !.metadata = [k \in DOMAIN res.metadata |->
                             IF k = "size" THEN res.metadata[k]
                             ELSE Plain(res.metadata[k])]]

\* the entities of the five characters, without their '&'
EntityNames ==
    {
      \* 'amp;', 'lt;', 'gt;', 'quot;'
      <<97, 109, 112, 59>>, <<108, 116, 59>>, <<103, 116, 59>>,
      <<113, 117, 111, 116, 59>>,
      \* '#x27;', 'apos;'
      <<35, 120, 50, 55, 59>>, <<97, 112, 111, 115, 59>>
    }

\* C16: in html and xml output no value of the result (content, filename,
\* MIME type, hash) shows a raw < > " or ': the output has as many of each as
\* the output for the same result without the five characters; every & of the
\* output starts an entity; and the content is escaped once: without metadata
\* the output has one & for each of the five characters of the content.
C16_MarkupEscaping ==
    FormatSucceeded /\ NameIs({NAME_html, NAME_xml}) =>
        LET out == formatted.value
            plain == format(PlainResult, formatCall.format, formatCall.options).value
        IN  /\ \A c \in {60, 62, 34, 39} : Count(out, {c}) = Count(plain, {c})
            /\ \A i \in DOMAIN out :
                   out[i] = 38 =>
                       \E e \in EntityNames :
                           StartsWith(SubSeq(out, i + 1, Len(out)), e)
            /\ ~formatCall.options.includeMetadata =>
                   Count(out, {38}) = Count(plain, {38}) + Count(ContentFed, MarkupChars)

----------------------------------------------------------------------------
(* C17 *)

\* the lines of the block scalar of a yaml rendering, without their indent:
\* the lines after the first up to the first empty line
YamlContentLines ==
    LET lines == split(formatted.value, 10)
        empty == {i \in 2..Len(lines) : lines[i] = <<>>}
        stop == CHOOSE i \in empty : \A k \in empty : i <= k
    IN  [i \in 1..(stop - 2) |-> SubSeq(lines[i + 1], 3, Len(lines[i + 1]))]

\* C17: whatever wrapAt the caller passes, the content lines of the yaml
\* block scalar are the content wrapped at 76 columns: every content line but
\* the last has exactly 76 characters after the two blanks of its indent.
C17_YamlWrap ==
    FormatSucceeded /\ NameIs({NAME_yaml, NAME_yml}) =>
        \A i \in 1..(Len(YamlContentLines) - 1) :
            Len(YamlContentLines[i]) = YamlWrapColumn

----------------------------------------------------------------------------
(* C18 *)

\* C18: for the raw format with wrapAt = W > 0, under every combination of
\* the other options, every line of the returned text but the last has
\* exactly W characters and no line has more.
C18_WrapInvariant ==
    FormatSucceeded /\ NameIs({NAME_raw}) /\ formatCall.options.wrapAt > 0 =>
        LET lines == split(formatted.value, 10)
        IN  /\ \A i \in 1..(Len(lines) - 1) :
                   Len(lines[i]) = formatCall.options.wrapAt
            /\ Len(lines[Len(lines)]) <= formatCall.options.wrapAt

----------------------------------------------------------------------------
(* C19 *)

\* C19: a call of format, whether it returns or throws, leaves the result it
\* was given, with its content and metadata, as it was.
C19_NoMutation ==
    [][formatted = NoFormatted /\ formatted' # NoFormatted =>
           formatCall'.result = formatCall.result]_vars

\* a call that wrapped the content and made a data URI of it has returned
C19_Witness ==
    /\ FormatSucceeded
    /\ formatCall.options.wrapAt > 0
    /\ WantsDataUri
    /\ TextOf(formatCall.result) # <<>>

----------------------------------------------------------------------------
(* Concurrent calls of convert on one engine *)

\* the callers whose convert calls overlap, as the two of Promise.all
Callers == {1, 2}

\* every call keeps its buffer, stats, metadata and content in one place for
\* all calls: what fields of the engine would be
SlotOf_Shared(c) == 1

\* the activation that holds the locals (buffer, stats, metadata, content) of
\* the call of caller c: its own
SlotOf(c) == c

\* the locals of an activation before anything is assigned
EmptyFrame ==
    [buffer |-> <<>>, size |-> 0, mimeType |-> "", content |-> <<>>]

\* a caller without a call: outcome is what the promise of convertInMemory
\* or convertStreamingFile settles with, result what convert returns, log
\* the filesystem calls of the request that have completed, in order
IdleCall == [pc |-> "idle", options |-> NoOptions, frame |-> EmptyFrame,
             outcome |-> NoResult, result |-> NoResult, log |-> <<>>]

\* a readable file of text, one of base64, one that decode rejects, the
\* unreadable file and the missing one
ConcurrentPaths ==
    {FilePath(HELLO), FilePath(<<90, 103, 61, 61>>),
     FilePath(<<83, 71, 86, 115, 42, 71, 56>>), LockedPath, MissingPath}

\* the requests of the overlapping calls
ConcurrentRequests ==
    {[inputType |-> "file", input |-> path, mode |-> mode,
      streaming |-> streaming, chunkSize |-> 65536, wrapAt |-> wrapAt] :
        path \in ConcurrentPaths, mode \in {"encode", "decode"},
        streaming \in BOOLEAN, wrapAt \in {MaxWrap}}
    \cup {[inputType |-> "string", input |-> input, mode |-> mode,
           streaming |-> FALSE, chunkSize |-> 65536, wrapAt |-> wrapAt] :
             input \in {HELLO, <<83, 71, 86, 115, 42, 71, 56>>},
             mode \in {"encode", "decode"}, wrapAt \in {0, MaxWrap}}
    \cup {[inputType |-> "stdin", input |-> input, mode |-> mode,
           streaming |-> FALSE, chunkSize |-> 65536, wrapAt |-> wrapAt] :
             input \in {Utf8Encode(HELLO), <<0, 128>>},
             mode \in {"encode", "decode"}, wrapAt \in {0}}

\* the files of the directory that the overlapping calls name
ConcurrentFiles ==
    [p \in ConcurrentPaths \cap DOMAIN InitialFiles |-> InitialFiles[p]]

ConcurrentInit ==
    /\ files = ConcurrentFiles
    /\ options = NoOptions
    /\ result = NoResult
    /\ formatCall = NoFormatCall
    /\ formatted = NoFormatted
    /\ calls = [c \in Callers |-> IdleCall]
    /\ jobs = <<>>
    /\ lastCall = NoCall
    /\ recent = <<>>
    /\ frontEnd = Idle

\* the locals of the call of caller c
Frame(c) == calls[SlotOf(c)].frame

\* the awaits of convert that are calls of the filesystem: fs.readFile of
\* convertInMemory, fs.stat, fs.readFile of streamEncodeFile and
\* streamDecodeFile, createReadStream of calculateFileHash
FsSteps == {"read", "stat", "streamRead", "hash"}

\* the filesystem call that the call of caller c awaits, as it completes
Access(c) ==
    LET path == calls[c].options.input
        done == IF calls[c].pc = "stat" THEN stat(files, path)
                ELSE readFile(files, path)
    IN  [op |-> calls[c].pc, ok |-> ~done.threw,
         error |-> IF done.threw THEN done.message ELSE ""]

\* the filesystem calls of the request of caller c once the awaited one
\* has completed
Logged(c) ==
    IF calls[c].pc \in FsSteps THEN Append(calls[c].log, Access(c))
    ELSE calls[c].log

\* the call of caller c goes on to its next await with its locals now frame
Proceed(c, pc, frame) ==
    /\ calls' = [calls EXCEPT ![SlotOf(c)].frame = frame, ![c].pc = pc,
                              ![c].log = Logged(c)]
    /\ UNCHANGED <<engineVars, formatVars, serverVars>>

\* the promise of the call of caller c settles with outcome
Settle(c, outcome) ==
    /\ calls' = [calls EXCEPT ![c].outcome = outcome, ![c].pc = "return",
                              ![c].log = Logged(c)]
    /\ UNCHANGED <<engineVars, formatVars, serverVars>>

\* the part of convertInMemory after its last await: the metadata, the
\* conversion with its own catch, and the result
InMemoryTail(opts, buffer, mimeType) ==
    LET metadata ==
            IF opts.inputType = "file"
            THEN [filename |-> LastSegment(opts.input),
                  size |-> Len(buffer),
                  mimeType |-> mimeType,
                  hash |-> calculateBufferHash(buffer)]
            ELSE [size |-> Len(buffer),
                  mimeType |-> mimeType,
                  hash |-> calculateBufferHash(buffer)]
        content == IF opts.mode = "encode"
                   THEN Return(encodeBuffer(buffer, opts.wrapAt))
                   ELSE decodeBase64(Utf8Decode(buffer))
    IN  IF content.threw
        THEN Return([content |-> <<>>,
                     metadata |-> [size |-> 0],
                     processingTime |-> 0,
                     success |-> FALSE,
                     error |-> content.message])
        ELSE Return([content |-> content.value,
                     metadata |-> metadata,
                     processingTime |-> 0,
                     success |-> TRUE])

\* engine.convert(options) is called: the call runs to its first await, which
\* is fs.stat for a streamed file, fs.readFile for a file in memory,
\* detectFromBuffer for stdin and the await of convert itself for a string
StartCall(c) ==
    /\ calls[c].pc = "idle"
    /\ \E opts \in ConcurrentRequests :
           calls' = [calls EXCEPT
               ![SlotOf(c)].frame =
                   IF opts.inputType = "string"
                   THEN [EmptyFrame EXCEPT !.buffer = Utf8Encode(opts.input),
                                           !.mimeType = "text/plain"]
                   ELSE IF opts.inputType = "stdin"
                   THEN [EmptyFrame EXCEPT !.buffer = opts.input]
                   ELSE EmptyFrame,
               ![c].outcome =
                   IF opts.inputType = "string"
                   THEN InMemoryTail(opts, Utf8Encode(opts.input), "text/plain")
                   ELSE NoResult,
               ![c].options = opts,
               ![c].pc = IF opts.inputType = "string" THEN "return"
                         ELSE IF opts.inputType = "stdin" THEN "detect"
                         ELSE IF opts.streaming THEN "stat"
                         ELSE "read"]
    /\ UNCHANGED <<engineVars, formatVars, serverVars>>

\* on a failed fs.readFile, convertInMemory reads the file once more before
\* it gives up
AfterReadFile_Retry(c) ==
    /\ calls[c].pc = "read"
    /\ LET buffer == readFile(files, calls[c].options.input)
       IN  IF buffer.threw
           THEN IF calls[c].log = <<>>
                THEN Proceed(c, "read", Frame(c))
                ELSE Settle(c, buffer)
           ELSE Proceed(c, "stat", [Frame(c) EXCEPT !.buffer = buffer.value])

\* convertInMemory resumes with what fs.readFile gave and awaits fs.stat
AfterReadFile(c) ==
    /\ calls[c].pc = "read"
    /\ LET buffer == readFile(files, calls[c].options.input)
       IN  IF buffer.threw
           THEN Settle(c, buffer)
           ELSE Proceed(c, "stat", [Frame(c) EXCEPT !.buffer = buffer.value])

\* the call resumes with what fs.stat gave and awaits detectFromFile
AfterStat(c) ==
    /\ calls[c].pc = "stat"
    /\ LET stats == stat(files, calls[c].options.input)
       IN  IF stats.threw
           THEN Settle(c, stats)
           ELSE Proceed(c, "detect", [Frame(c) EXCEPT !.size = stats.value.size])

\* the call resumes with the MIME type: convertInMemory runs to its end,
\* convertStreamingFile awaits the reading of the file
AfterDetect(c) ==
    /\ calls[c].pc = "detect"
    /\ LET opts == calls[c].options
           mimeType == IF opts.inputType = "file"
                       THEN detectFromFile(files, opts.input)
                       ELSE detectFromBuffer(Frame(c).buffer)
       IN  IF opts.inputType = "file" /\ opts.streaming
           THEN Proceed(c, "streamRead", [Frame(c) EXCEPT !.mimeType = mimeType])
           ELSE Settle(c, InMemoryTail(opts, Frame(c).buffer, mimeType))

\* convertStreamingFile resumes with the content of streamEncodeFile and
\* awaits calculateFileHash, or with that of streamDecodeFile and returns
AfterStreamRead(c) ==
    /\ calls[c].pc = "streamRead"
    /\ LET opts == calls[c].options
           content == IF opts.mode = "encode"
                      THEN streamEncodeFile(files, opts.input, opts.chunkSize)
                      ELSE streamDecodeFile(files, opts.input)
       IN  IF content.threw
           THEN Settle(c, content)
           ELSE IF opts.mode = "encode"
           THEN Proceed(c, "hash", [Frame(c) EXCEPT !.content = content.value])
           ELSE Settle(c, Return([content |-> content.value,
                                  metadata |->
                                      [filename |-> LastSegment(opts.input),
                                       size |-> Frame(c).size,
                                       mimeType |-> Frame(c).mimeType],
                                  processingTime |-> 0,
                                  success |-> TRUE]))

\* convertStreamingFile resumes with the hash and returns
AfterHash(c) ==
    /\ calls[c].pc = "hash"
    /\ LET opts == calls[c].options
           hash == calculateFileHash(files, opts.input)
       IN  IF hash.threw
           THEN Settle(c, hash)
           ELSE Settle(c, Return([content |-> Frame(c).content,
                                  metadata |->
                                      [filename |-> LastSegment(opts.input),
                                       size |-> Frame(c).size,
                                       mimeType |-> Frame(c).mimeType,
                                       hash |-> hash.value],
                                  processingTime |-> 0,
                                  success |-> TRUE]))

\* convert resumes with the result or in its catch, sets processingTime and
\* returns to the caller
ReturnCall(c) ==
    /\ calls[c].pc = "return"
    /\ \E elapsed \in ElapsedTimes :
           calls' = [calls EXCEPT
               ![c].result =
                   IF calls[c].outcome.threw
                   THEN [content |-> <<>>,
                         metadata |-> [size |-> 0],
                         processingTime |-> elapsed,
                         success |-> FALSE,
                         error |-> calls[c].outcome.message]
                   ELSE [calls[c].outcome.value EXCEPT !.processingTime = elapsed],
               ![c].pc = "done"]
    /\ UNCHANGED <<engineVars, formatVars, serverVars>>

\* the caller has used the result and is ready for its next call
FinishCall(c) ==
    /\ calls[c].pc = "done"
    /\ calls' = [calls EXCEPT ![c] = IdleCall]
    /\ UNCHANGED <<engineVars, formatVars, serverVars>>

ConcurrentNext ==
    \E c \in Callers :
        \/ StartCall(c)
        \/ AfterReadFile(c)
        \/ AfterStat(c)
        \/ AfterDetect(c)
        \/ AfterStreamRead(c)
        \/ AfterHash(c)
        \/ ReturnCall(c)
        \/ FinishCall(c)

ConcurrentSpec == ConcurrentInit /\ [][ConcurrentNext]_vars

----------------------------------------------------------------------------
(* C20 *)

\* the content, metadata, success flag and error of a result
Returned(r) == [f \in DOMAIN r \ {"processingTime"} |-> r[f]]

\* C20: with the calls of several callers interleaved at their awaits, every
\* call returns the content, metadata and success flag that convert gives for
\* its options when it runs alone.
C20_NoInterference ==
    \A c \in Callers :
        calls[c].pc = "done" =>
            Returned(calls[c].result) = Returned(convert(files, calls[c].options, 0))

\* a call that read one file has returned while the call of the other
\* caller, on another file, is between two of its awaits
C20_Witness ==
    \E c, d \in Callers :
        /\ calls[c].pc = "done"
        /\ calls[c].result.success
        /\ calls[c].options.inputType = "file"
        /\ calls[d].pc \in {"stat", "detect", "streamRead", "hash"}
        /\ calls[d].options.inputType = "file"
        /\ calls[d].options.input # calls[c].options.input

----------------------------------------------------------------------------
(* C21 *)

\* C21: every successful conversion exposes the content hash: whatever the
\* input kind, the direction and the execution mode, a result with success =
\* TRUE has metadata.hash, and it is the SHA-256 digest of the raw input bytes.
C21_HashExposed ==
    Called /\ result.success =>
        /\ "hash" \in DOMAIN result.metadata
        /\ result.metadata.hash = sha256(InputBytes)

----------------------------------------------------------------------------
(* A convert call on files that another process writes and removes *)

\* the caller whose call is followed
Reader == 1

\* the files the other process writes or removes: one that the directory
\* holds, and the one that does not exist at first
WrittenPaths == {FilePath(HELLO), MissingPath}

\* what the other process writes: "Hello", or the shorter "Zg=="
WrittenContents == {HELLO, <<90, 103, 61, 61>>}

\* another process writes a file: fs.writeFile creates or replaces it
WriteFile ==
    /\ \E path \in WrittenPaths, data \in WrittenContents :
           /\ path \in DOMAIN files => files[path].data # data
           /\ files' = [p \in DOMAIN files \cup {path} |->
                            IF p = path THEN [readable |-> TRUE, data |-> data]
                            ELSE files[p]]
    /\ UNCHANGED <<options, result, formatVars, calls, serverVars>>

\* another process removes a file
RemoveFile ==
    /\ \E path \in WrittenPaths \cap DOMAIN files :
           files' = [p \in DOMAIN files \ {path} |-> files[p]]
    /\ UNCHANGED <<options, result, formatVars, calls, serverVars>>

RewriteNext ==
    \/ StartCall(Reader)
    \/ AfterReadFile(Reader)
    \/ AfterStat(Reader)
    \/ AfterDetect(Reader)
    \/ AfterStreamRead(Reader)
    \/ AfterHash(Reader)
    \/ ReturnCall(Reader)
    \/ FinishCall(Reader)
    \/ WriteFile
    \/ RemoveFile

RewriteSpec == ConcurrentInit /\ [][RewriteNext]_vars

----------------------------------------------------------------------------
(* C22 *)

\* the filesystem calls of the request of the reader
FsLog == calls[Reader].log

\* a filesystem call of the request has failed
FsFailed == \E i \in DOMAIN FsLog : ~FsLog[i].ok

----------------------------------------------------------------------------
(* C27 *)

\* the reader holds the result of a successful encode of a file
EncodedFile ==
    /\ calls[Reader].pc = "done"
    /\ calls[Reader].options.inputType = "file"
    /\ calls[Reader].options.mode = "encode"
    /\ calls[Reader].result.success

\* the bytes whose base64 the returned content is
Payload == fromBase64(StripWhitespace(calls[Reader].result.content))

\* C27: the metadata is consistent with the payload even if the file changes
\* during the call: for every successful encode of a file, in memory or
\* streamed, with another process writing the file between the filesystem
\* calls of convert, metadata.size is the number of bytes and metadata.hash
\* the digest of exactly the bytes whose base64 is the returned content.
C27_ConsistentMetadata ==
    EncodedFile =>
        /\ calls[Reader].result.metadata.size = Len(Payload)
        /\ calls[Reader].result.metadata.hash = sha256(Payload)

----------------------------------------------------------------------------
(* C26 *)

\* a "=" stands before the final two positions
MisplacedPadding(text) == \E i \in 1..(Len(text) - 2) : IsPad(text[i])

\* more than two "=" end the text
ExcessPadding(text) == TrailingPadding(text) > 2

\* the decode was rejected with this message
RejectedWith(message) ==
    /\ ~result.success
    /\ "error" \in DOMAIN result
    /\ result.error = message

\* C26: decode reports misplaced and excess padding as reject conditions of
\* their own: a cleaned input of base64 characters and "=" whose only defect
\* is a "=" before the final two positions is rejected with 'padding in wrong
\* position', one whose only defect is more than two "=" at its end with
\* 'too many padding characters', and 'contains invalid characters' is the
\* error only of inputs with a character outside the alphabet and "=".
C26_DistinctRejects ==
    LET cleaned == Cleaned(InputText) IN
    Decoding =>
        /\ (~HasForeignChar(cleaned) /\ MisplacedPadding(cleaned)
                /\ ~ExcessPadding(cleaned))
               => RejectedWith("Invalid base64 format: padding in wrong position")
        /\ (~HasForeignChar(cleaned) /\ ExcessPadding(cleaned)
                /\ PadsAtEnd(cleaned))
               => RejectedWith("Invalid base64 format: too many padding characters")
        /\ RejectedWith("Invalid base64 format: contains invalid characters")
               => HasForeignChar(cleaned)

----------------------------------------------------------------------------
(* JobMemory *)

\* maxJobs, 1000 in the source, scaled down so that evictions happen
maxJobs == 3

\* undefined, as Map.get returns for a key that is not there
Undefined == [undefined |-> TRUE]

\* the position in the Map of the key id; 0 when the Map has no such key
KeyIndex(js, id) ==
    IF \E i \in DOMAIN js : js[i].id = id
    THEN CHOOSE i \in DOMAIN js : js[i].id = id
    ELSE 0

\* Map.delete(id)
MapDelete(js, id) == SelectSeq(js, LAMBDA j : j.id # id)

\* Map.set(job.id, job): a new key goes to the end, a key that is there
\* keeps its place and gets the new value
MapSet(js, job) ==
    IF KeyIndex(js, job.id) = 0 THEN Append(js, job)
    ELSE [js EXCEPT ![KeyIndex(js, job.id)] = job]

\* JobMemory.set: at capacity the first key of the Map is deleted, if it is
\* truthy (the empty string is not)
set(js, job) ==
    LET oldestKey == js[1].id
    IN  MapSet(IF Len(js) >= maxJobs /\ oldestKey # <<>>
               THEN MapDelete(js, oldestKey)
               ELSE js,
               job)

\* JobMemory.get: the job found is deleted and set anew, which moves it to
\* the end of the Map; gives the Map and the value returned
get(js, id) ==
    IF KeyIndex(js, id) = 0
    THEN [jobs |-> js, job |-> Undefined]
    ELSE [jobs |-> MapSet(MapDelete(js, id), js[KeyIndex(js, id)]),
          job |-> js[KeyIndex(js, id)]]

\* JobMemory.list: the values, newest timestamp first; the sort is stable
list(js) ==
    LET Before(i, j) ==
            \/ js[i].timestamp > js[j].timestamp
            \/ js[i].timestamp = js[j].timestamp /\ i < j
        Rank(i) == 1 + Cardinality({j \in DOMAIN js : Before(j, i)})
    IN  [r \in DOMAIN js |-> js[CHOOSE i \in DOMAIN js : Rank(i) = r]]

\* JobMemory.has
has(js, id) == KeyIndex(js, id) # 0

\* JobMemory.clear
clear(js) == <<>>

\* JobMemory.size
size(js) == Len(js)

----------------------------------------------------------------------------
(* A caller of the methods of one JobMemory *)

\* the job ids that are passed: '', 'a', 'b', 'c', 'd'
MemoryIds == {<<>>, <<97>>, <<98>>, <<99>>, <<100>>}

\* the values of timestamp.getTime()
Timestamps == {1, 2}

\* the ids of the stored jobs
StoredIds(js) == {js[i].id : i \in DOMAIN js}

\* the order of last use once id has been stored or fetched, of the jobs
\* that are stored
Touch(order, id, js) ==
    SelectSeq(SelectSeq(order, LAMBDA k : k # id) \o <<id>>,
              LAMBDA k : k \in StoredIds(js))

\* jobMemory.set(job); the Map is let grow by one job past maxJobs at most
MemorySet ==
    /\ Len(jobs) <= maxJobs
    /\ \E id \in MemoryIds, timestamp \in Timestamps :
           /\ jobs' = set(jobs, [id |-> id, timestamp |-> timestamp])
           /\ lastCall' = [method |-> "set", id |-> id, returned |-> Undefined]
           /\ recent' = Touch(recent, id, jobs')
    /\ UNCHANGED <<engineVars, formatVars, calls, frontEnd>>

\* jobMemory.get(id)
MemoryGet ==
    /\ \E id \in MemoryIds :
           /\ jobs' = get(jobs, id).jobs
           /\ lastCall' = [method |-> "get", id |-> id,
                           returned |-> get(jobs, id).job]
           /\ recent' = IF has(jobs, id) THEN Touch(recent, id, jobs)
                        ELSE recent
    /\ UNCHANGED <<engineVars, formatVars, calls, frontEnd>>

\* jobMemory.list()
MemoryList ==
    /\ lastCall' = [method |-> "list", returned |-> list(jobs)]
    /\ UNCHANGED <<engineVars, formatVars, calls, jobs, recent, frontEnd>>

\* jobMemory.has(id)
MemoryHas ==
    /\ \E id \in MemoryIds :
           lastCall' = [method |-> "has", id |-> id, returned |-> has(jobs, id)]
    /\ UNCHANGED <<engineVars, formatVars, calls, jobs, recent, frontEnd>>

\* jobMemory.clear()
MemoryClear ==
    /\ jobs' = clear(jobs)
    /\ lastCall' = [method |-> "clear", returned |-> Undefined]
    /\ recent' = <<>>
    /\ UNCHANGED <<engineVars, formatVars, calls, frontEnd>>

\* jobMemory.size()
MemorySize ==
    /\ lastCall' = [method |-> "size", returned |-> size(jobs)]
    /\ UNCHANGED <<engineVars, formatVars, calls, jobs, recent, frontEnd>>

MemoryNext ==
    \/ MemorySet
    \/ MemoryGet
    \/ MemoryList
    \/ MemoryHas
    \/ MemoryClear
    \/ MemorySize

MemorySpec == Init /\ [][MemoryNext]_vars

----------------------------------------------------------------------------
(* C24 *)

\* C24: JobMemory is an LRU cache: when set is called while maxJobs jobs are
\* stored, the one job evicted is the job least recently stored or fetched
\* with get, and every other stored job is kept.
C24_LruEviction ==
    [][(lastCall'.method = "set" /\ Len(jobs) = maxJobs) =>
           StoredIds(jobs') =
               (StoredIds(jobs) \ {recent[1]}) \cup {lastCall'.id}]_vars

----------------------------------------------------------------------------
(* C29 *)

\* C29: the capacity of JobMemory: after any sequence of set, get, list, has
\* and clear calls, with any job ids, repeated ones included, size() never
\* exceeds maxJobs, and clear leaves size() = 0.
C29_Capacity ==
    /\ size(jobs) <= maxJobs
    /\ lastCall.method = "size" => lastCall.returned <= maxJobs
    /\ lastCall.method = "clear" => size(jobs) = 0

----------------------------------------------------------------------------
(* The front ends: the encode command of the CLI and the tools of the MCP
   server *)

\* 'text/plain'
TEXT_PLAIN == <<116, 101, 120, 116, 47, 112, 108, 97, 105, 110>>
\* 'application/octet-stream'
OCTET_STREAM == <<97, 112, 112, 108, 105, 99, 97, 116, 105, 111, 110, 47, 111, 99, 116, 101, 116, 45, 115, 116, 114, 101, 97, 109>>
\* 'datauri', the format of the jobs of the datauri tool
NAME_datauri == <<100, 97, 116, 97, 117, 114, 105>>

\* a MIME type of the engine as the text the formatter writes
MimeText(mimeType) ==
    IF mimeType = "text/plain" THEN TEXT_PLAIN ELSE OCTET_STREAM

\* digest('hex'): two hexadecimal digits for each byte of the digest, which
\* stands for the bytes it was computed from
DigestHex(hash) ==
    Concat([i \in DOMAIN hash.sha256 |->
               <<HexDigit(hash.sha256[i] \div 16), HexDigit(hash.sha256[i] % 16)>>])

\* the ConversionResult of an encode as format reads it: content a string,
\* mimeType and hash as text
ForFormatter(r) ==
    [content |-> StringContent(r.content),
     metadata |-> [k \in DOMAIN r.metadata |->
                      IF k = "mimeType" THEN MimeText(r.metadata[k])
                      ELSE IF k = "hash" THEN DigestHex(r.metadata[k])
                      ELSE r.metadata[k]],
     processingTime |-> r.processingTime,
     success |-> r.success]

\* calculateChecksum(data): a string is hashed as its UTF-8 bytes
calculateChecksum(bytes) == sha256(bytes)

\* generateJobId(): `job_${Date.now()}_${random}`; 'j1', 'j2'
JobIds == {<<106, 49>>, <<106, 50>>}

\* a job id that generateJobId has not produced: 'j0'
UnknownJobId == <<106, 48>>

\* what the front ends are given as input: the path of a file that holds
\* "Hello", the path of the file that cannot be opened, the path of no file,
\* and the text "Hello" itself
HelloPath == FilePath(HELLO)
InputArguments == {HelloPath, LockedPath, MissingPath, HELLO}

\* --format of the CLI: 'raw', 'json', and 'pdf', which format does not know
CliFormats == {NAME_raw, NAME_json, <<112, 100, 102>>}

\* --wrap of the CLI and wrapAt of the encode tool; 0 when it is not given
WrapColumns == {0, 3, 4}

\* the requests of the encode tool: format, dataUri and wrapAt
ToolRequests ==
    {[format |-> NAME_raw, dataUri |-> FALSE, wrapAt |-> 0],
     [format |-> NAME_raw, dataUri |-> FALSE, wrapAt |-> 4],
     [format |-> NAME_raw, dataUri |-> TRUE, wrapAt |-> 4],
     [format |-> NAME_json, dataUri |-> FALSE, wrapAt |-> 0]}

\* new Date() of the jobs the tools store
Now == 1

\* the process that runs, the CLI or the MCP server, with nothing to handle
IdleIn(program) == [kind |-> "idle", program |-> program]

\* the front end returns to idle with the request's values dropped
Release(program) ==
    /\ options' = NoOptions
    /\ result' = NoResult
    /\ formatCall' = NoFormatCall
    /\ formatted' = NoFormatted
    /\ frontEnd' = IdleIn(program)

\* the encode command calling format whether or not convert succeeded
CliAfterConvert_NoCheck ==
    /\ frontEnd.kind = "cli"
    /\ frontEnd.pc = "convert"
    /\ result # NoResult
    /\ formatCall' = [result |-> ForFormatter(result),
                      format |-> frontEnd.format,
                      options |-> [dataUri |-> frontEnd.dataUri,
                                   includeMetadata |-> frontEnd.metadata,
                                   wrapAt |-> frontEnd.wrap]]
    /\ frontEnd' = [frontEnd EXCEPT !.pc = "format"]
    /\ UNCHANGED <<engineVars, formatted, calls, jobs, lastCall, recent>>

\* the encode command: buildConversionOptions, up to the call of convert. An
\* argument is a file when fs.stat finds one, and a string otherwise; without
\* an argument the input is what stdin holds
CliEncode ==
    /\ frontEnd = IdleIn("cli")
    /\ options = NoOptions
    /\ \E input \in InputArguments \cup {<<>>}, stdin \in {Utf8Encode(HELLO)},
          name \in CliFormats, wrap \in WrapColumns,
          dataUri \in BOOLEAN, streaming \in BOOLEAN :
           /\ options' =
                  [inputType |-> IF input = <<>> THEN "stdin"
                                 ELSE IF ~stat(files, input).threw THEN "file"
                                 ELSE "string",
                   input |-> IF input = <<>> THEN stdin ELSE input,
                   mode |-> "encode", streaming |-> streaming,
                   chunkSize |-> 65536, wrapAt |-> wrap]
           /\ frontEnd' = [kind |-> "cli", pc |-> "convert", format |-> name,
                           wrap |-> wrap, dataUri |-> dataUri,
                           metadata |-> FALSE]
    /\ UNCHANGED <<files, result, formatVars, calls, jobs, lastCall, recent>>

\* the encode command after convert: a failed result is printed and the
\* process exits; a successful one is passed to format
CliAfterConvert ==
    /\ frontEnd.kind = "cli"
    /\ frontEnd.pc = "convert"
    /\ result # NoResult
    /\ IF ~result.success
       THEN /\ frontEnd' = [kind |-> "cli", pc |-> "exit", code |-> 1,
                            stderr |-> result.error, stdout |-> <<>>]
            /\ UNCHANGED formatCall
       ELSE /\ formatCall' = [result |-> ForFormatter(result),
                              format |-> frontEnd.format,
                              options |-> [dataUri |-> frontEnd.dataUri,
                                           includeMetadata |-> frontEnd.metadata,
                                           wrapAt |-> frontEnd.wrap]]
            /\ frontEnd' = [frontEnd EXCEPT !.pc = "format"]
    /\ UNCHANGED <<engineVars, formatted, calls, jobs, lastCall, recent>>

\* the encode command after format: the text goes to stdout; what format
\* throws is printed by the catch and the process exits with 1
CliAfterFormat ==
    /\ frontEnd.kind = "cli"
    /\ frontEnd.pc = "format"
    /\ formatted # NoFormatted
    /\ frontEnd' = IF formatted.threw
                   THEN [kind |-> "cli", pc |-> "exit", code |-> 1,
                         stderr |-> formatted.message, stdout |-> <<>>]
                   ELSE [kind |-> "cli", pc |-> "exit", code |-> 0,
                         stderr |-> "", stdout |-> formatted.value,
                         wrap |-> frontEnd.wrap, format |-> frontEnd.format,
                         dataUri |-> frontEnd.dataUri]
    /\ UNCHANGED <<engineVars, formatVars, calls, jobs, lastCall, recent>>

\* the process of the command has ended
CliExit ==
    /\ frontEnd.kind = "cli"
    /\ frontEnd.pc = "exit"
    /\ Release("cli")
    /\ UNCHANGED <<files, calls, jobs, lastCall, recent>>

\* the job the encode tool finds for checksum, format and options: the first
\* such job of jobMemory.list(); JSON.stringify(job.options) equals that of
\* {dataUri, includeMetadata, wrapAt} when the keys and values are the same
ExistingJob(checksum, name, opts) ==
    LET found == SelectSeq(list(jobs),
                           LAMBDA job : /\ job.checksum = checksum
                                        /\ job.format = name
                                        /\ job.options = opts)
    IN  IF found = <<>> THEN Undefined ELSE found[1]

\* the encode tool, up to its call of convert: the file is read when isFile
\* is set, and a job stored for the same checksum, format and options is
\* answered from the memory. convert gets the Buffer of the file as a
\* 'string' input: Buffer.from(buffer, 'utf8') copies the bytes, as
\* Utf8Encode does for the ASCII bytes of the file
ToolEncode ==
    /\ frontEnd = IdleIn("mcp")
    /\ options = NoOptions
    /\ \E data \in {HelloPath, MissingPath, HELLO}, request \in ToolRequests :
           LET name == request.format
               dataUri == request.dataUri
               wrapAt == request.wrapAt
               isFile == data # HELLO
               fileBuffer == readFile(files, data)
               inputContent == IF isFile THEN fileBuffer.value ELSE data
               checksum == calculateChecksum(IF isFile THEN fileBuffer.value
                                             ELSE Utf8Encode(data))
               opts == [dataUri |-> dataUri, includeMetadata |-> FALSE,
                        wrapAt |-> wrapAt]
               existingJob == ExistingJob(checksum, name, opts)
               call == [kind |-> "encode", format |-> name, options |-> opts,
                        filename |-> IF isFile THEN LastSegment(data) ELSE <<>>]
           IN  IF isFile /\ fileBuffer.threw
               THEN /\ frontEnd' = call @@
                                   [pc |-> "respond", isError |-> TRUE,
                                    head |-> "Error reading file",
                                    text |-> fileBuffer.message]
                    /\ UNCHANGED options
               ELSE IF existingJob # Undefined
               THEN /\ frontEnd' = call @@
                                   [pc |-> "respond", isError |-> FALSE,
                                    checksum |-> checksum,
                                    head |-> "Recalled from cache",
                                    jobId |-> existingJob.id,
                                    text |-> existingJob.result.content]
                    /\ UNCHANGED options
               ELSE /\ frontEnd' = call @@ [pc |-> "convert",
                                            checksum |-> checksum]
                    /\ options' = [inputType |-> "string",
                                   input |-> inputContent, mode |-> "encode",
                                   streaming |-> FALSE, chunkSize |-> 65536,
                                   wrapAt |-> wrapAt]
    /\ UNCHANGED <<files, result, formatVars, calls, jobs, lastCall, recent>>

\* the encode tool after convert: a failed result is the answer; a successful
\* one is passed to format
ToolAfterConvert ==
    /\ frontEnd.kind = "encode"
    /\ frontEnd.pc = "convert"
    /\ result # NoResult
    /\ IF ~result.success
       THEN /\ frontEnd' = [frontEnd EXCEPT !.pc = "respond"] @@
                           [isError |-> TRUE, head |-> "Encoding error",
                            text |-> result.error]
            /\ UNCHANGED formatCall
       ELSE /\ formatCall' = [result |-> ForFormatter(result),
                              format |-> frontEnd.format,
                              options |-> frontEnd.options]
            /\ frontEnd' = [frontEnd EXCEPT !.pc = "format"]
    /\ UNCHANGED <<engineVars, formatted, calls, jobs, lastCall, recent>>

\* the encode tool after format: the job is stored under a new id and the
\* formatted output is the answer; what format throws is answered by the catch
ToolAfterFormat ==
    /\ frontEnd.kind = "encode"
    /\ frontEnd.pc = "format"
    /\ formatted # NoFormatted
    /\ IF formatted.threw
       THEN /\ frontEnd' = [frontEnd EXCEPT !.pc = "respond"] @@
                           [isError |-> TRUE, head |-> "Error",
                            text |-> formatted.message]
            /\ UNCHANGED jobs
       ELSE \E jobId \in JobIds, timestamp \in {Now} :
                /\ jobs' = set(jobs, [id |-> jobId, result |-> result,
                                      checksum |-> frontEnd.checksum,
                                      format |-> frontEnd.format,
                                      options |-> frontEnd.options,
                                      timestamp |-> timestamp,
                                      filename |-> frontEnd.filename])
                /\ frontEnd' = [frontEnd EXCEPT !.pc = "respond"] @@
                               [isError |-> FALSE, head |-> "Job ID",
                                jobId |-> jobId, text |-> formatted.value]
    /\ UNCHANGED <<engineVars, formatVars, calls, lastCall, recent>>

\* the datauri tool: the file is read or the base64 decoded, the result is
\* built by the tool itself and stored as a job of format 'datauri'
ToolDataUri ==
    /\ frontEnd = IdleIn("mcp")
    /\ \E input \in {HelloPath, MissingPath, toBase64(Utf8Encode(HELLO))},
          jobId \in JobIds, timestamp \in {Now} :
           LET isFile == input \in {HelloPath, MissingPath}
               read == readFile(files, input)
               data == IF isFile THEN read.value ELSE fromBase64(input)
               detectedMime == detectFromBuffer(data)
               base64 == toBase64(data)
               checksum == calculateChecksum(data)
               metadata == [mimeType |-> detectedMime, size |-> Len(data),
                            hash |-> checksum]
               call == [kind |-> "datauri", pc |-> "respond"]
           IN  IF isFile /\ read.threw
               THEN /\ frontEnd' = call @@ [isError |-> TRUE, head |-> "Error",
                                            text |-> read.message]
                    /\ UNCHANGED jobs
               ELSE /\ jobs' = set(jobs,
                          [id |-> jobId,
                           result |->
                               [content |-> base64,
                                metadata |->
                                    IF isFile
                                    THEN metadata @@
                                         [filename |-> LastSegment(input)]
                                    ELSE metadata,
                                processingTime |-> 0,
                                success |-> TRUE],
                           checksum |-> checksum,
                           format |-> NAME_datauri,
                           options |-> [dataUri |-> TRUE,
                                        includeMetadata |-> FALSE,
                                        wrapAt |-> 0],
                           timestamp |-> timestamp,
                           filename |-> IF isFile THEN input ELSE <<>>])
                    /\ frontEnd' = call @@
                           [isError |-> FALSE, head |-> "Job ID",
                            jobId |-> jobId,
                            text |-> DATA_PREFIX \o MimeText(detectedMime)
                                        \o BASE64_MARK \o base64]
    /\ UNCHANGED <<engineVars, formatVars, calls, lastCall, recent>>

\* the recall tool: jobMemory.get(jobId), and for a job that is found the
\* call of format with the job's result, format and options
ToolRecall ==
    /\ frontEnd = IdleIn("mcp")
    /\ formatCall = NoFormatCall
    /\ \E jobId \in JobIds \cup {UnknownJobId} :
           LET job == get(jobs, jobId).job
               call == [kind |-> "recall", jobId |-> jobId,
                        stored |-> has(jobs, jobId)]
           IN  /\ jobs' = get(jobs, jobId).jobs
               /\ IF job = Undefined
                  THEN /\ frontEnd' = call @@
                              [pc |-> "respond", isError |-> TRUE,
                               head |-> "Job not found", text |-> jobId]
                       /\ UNCHANGED formatCall
                  ELSE /\ frontEnd' = call @@ [pc |-> "format", job |-> job]
                       /\ formatCall' = [result |-> ForFormatter(job.result),
                                         format |-> job.format,
                                         options |-> job.options]
    /\ UNCHANGED <<engineVars, formatted, calls, lastCall, recent>>

\* the recall tool after format: the formatted output is the answer; the
\* handler has no catch, so what format throws rejects the call of the tool
ToolAfterRecall ==
    /\ frontEnd.kind = "recall"
    /\ frontEnd.pc = "format"
    /\ formatted # NoFormatted
    /\ frontEnd' = [frontEnd EXCEPT !.pc = "respond"] @@
                   (IF formatted.threw
                    THEN [rejected |-> TRUE, text |-> formatted.message]
                    ELSE [rejected |-> FALSE, isError |-> FALSE,
                          head |-> "Recalled job", text |-> formatted.value])
    /\ UNCHANGED <<engineVars, formatVars, calls, jobs, lastCall, recent>>

\* the answer of the tool has been sent
ToolRespond ==
    /\ frontEnd.kind \in {"encode", "datauri", "recall"}
    /\ frontEnd.pc = "respond"
    /\ Release("mcp")
    /\ UNCHANGED <<files, calls, jobs, lastCall, recent>>

FrontEndNext ==
    \/ CliEncode
    \/ CliAfterConvert
    \/ CliAfterFormat
    \/ CliExit
    \/ ToolEncode
    \/ ToolAfterConvert
    \/ ToolAfterFormat
    \/ ToolDataUri
    \/ ToolRecall
    \/ ToolAfterRecall
    \/ ToolRespond
    \/ Convert
    \/ Format

\* the process is the CLI or the MCP server; the directory holds the file
\* with "Hello" and the one that cannot be opened
FrontEndInit ==
    /\ files = [p \in {HelloPath, LockedPath} |-> InitialFiles[p]]
    /\ options = NoOptions
    /\ result = NoResult
    /\ formatCall = NoFormatCall
    /\ formatted = NoFormatted
    /\ calls = NoCalls
    /\ jobs = <<>>
    /\ lastCall = NoCall
    /\ recent = <<>>
    /\ frontEnd \in {IdleIn("cli"), IdleIn("mcp")}

FrontEndSpec == FrontEndInit /\ [][FrontEndNext]_vars

----------------------------------------------------------------------------
(* C23 *)

\* an encode request of the CLI or of the encode tool is being handled
EncodeRequest == frontEnd.kind \in {"cli", "encode"}

\* the error message the front end has emitted: on stderr by the command, as
\* the text of an error answer by the tool
Emitted == IF frontEnd.kind = "cli" THEN frontEnd.stderr ELSE frontEnd.text

\* C23: the front ends check success before formatting: in the encode
\* command and in the encode tool, format is called only after convert has
\* returned success = TRUE, with that result; when convert returns success =
\* FALSE, format is not called for the request and the error message of the
\* result is what the front end emits.
C23_SuccessBeforeFormat ==
    EncodeRequest =>
        /\ formatCall # NoFormatCall =>
               /\ result # NoResult
               /\ result.success
               /\ formatCall.result = ForFormatter(result)
        /\ (result # NoResult /\ ~result.success) =>
               /\ formatCall = NoFormatCall
               /\ formatted = NoFormatted
               /\ frontEnd.pc \in {"exit", "respond"} => Emitted = result.error

\* the encode command has exited with 1 after convert failed on the file that
\* cannot be opened, having printed the error of the result
C23_Witness ==
    /\ frontEnd.kind = "cli"
    /\ frontEnd.pc = "exit"
    /\ options.input = LockedPath
    /\ result # NoResult
    /\ ~result.success
    /\ frontEnd.stderr = "EACCES: permission denied, open"
    /\ formatCall = NoFormatCall

----------------------------------------------------------------------------
(* C25 *)

\* the output rendered for a job when its tool stored it: the formatted
\* output of the encode tool, the data URI of the datauri tool
Rendered(job) ==
    IF job.format = NAME_datauri
    THEN DATA_PREFIX \o MimeText(job.result.metadata.mimeType)
             \o BASE64_MARK \o job.result.content
    ELSE format(ForFormatter(job.result), job.format, job.options).value

\* the call of the recall tool was rejected
Rejected == "rejected" \in DOMAIN frontEnd /\ frontEnd.rejected

\* C25: recall by id: for every job held in the memory, whichever tool
\* stored it, the recall tool called with the id of the job completes without
\* error and returns the rendered output of the job; it answers 'Job not
\* found' only for ids that are not stored.
C25_RecallById ==
    (frontEnd.kind = "recall" /\ frontEnd.pc = "respond") =>
        IF frontEnd.stored
        THEN /\ ~Rejected
             /\ ~frontEnd.isError
             /\ frontEnd.text = Rendered(frontEnd.job)
        ELSE /\ frontEnd.isError
             /\ frontEnd.head = "Job not found"

----------------------------------------------------------------------------
(* C28 *)

\* the encode tool has answered from the memory
AnsweredFromCache ==
    /\ frontEnd.kind = "encode"
    /\ frontEnd.pc = "respond"
    /\ frontEnd.head = "Recalled from cache"

\* C28: repeated encode calls are memoized faithfully: when the encode tool
\* is called with the data, format and options of a stored job, the text it
\* returns from the memory carries the rendered output (format template,
\* wrapping, data URI) that the first call returned for the job.
C28_FaithfulCache ==
    AnsweredFromCache =>
        frontEnd.text = Rendered(jobs[KeyIndex(jobs, frontEnd.jobId)])

----------------------------------------------------------------------------
(* C30 *)

\* contents without newlines: those of the formatter's tests, the short
\* ones over the characters that the escapes treat, and "A\rBCDE"
RewrapContents ==
    {s \in TestContents \cup BoundedSeq(EscapeChars, MaxContentLen)
            \cup {<<65, 13, 66, 67, 68, 69>>} :
         \A i \in DOMAIN s : <<s[i]>> # NL}

\* the encode command has written raw output, wrapped at --wrap
CliWroteRaw ==
    /\ frontEnd.kind = "cli"
    /\ frontEnd.pc = "exit"
    /\ frontEnd.code = 0
    /\ frontEnd.format = NAME_raw
    /\ ~frontEnd.dataUri
    /\ frontEnd.wrap > 0

\* C30: wrapping again at the same width changes nothing: for a content
\* without newlines and W > 0, wrapContent at W applied to the content
\* wrapped at W gives the content wrapped at W; so the encode command, which
\* passes --wrap to the engine and to the formatter, writes the raw text
\* that one wrapping gives.
C30_RewrapIdempotent ==
    CliWroteRaw =>
        LET W == frontEnd.wrap
            once == wrapContent(toBase64(InputBytes), W)
        IN  /\ frontEnd.stdout = once
            /\ wrapContent(once, W) = once
            /\ \A s \in RewrapContents :
                   wrapContent(wrapContent(s, W), W) = wrapContent(s, W)

\* the command has written, in two lines of four, the base64 of the file
\* with "Hello" that the engine had wrapped at 4 before the formatter did
C30_Witness ==
    /\ CliWroteRaw
    /\ frontEnd.wrap = 4
    /\ options.inputType = "file"
    /\ ~options.streaming
    /\ result.content = <<83, 71, 86, 115, 10, 98, 71, 56, 61>>
    /\ frontEnd.stdout = <<83, 71, 86, 115, 10, 98, 71, 56, 61>>

====
